---- MODULE Spec2Model ----
(***************************************************************************)
(* Model of the rate-aggregation pipeline of compara-tasa:                 *)
(*   - the resilient fetcher (utils/fetch.ts): fetchWithRetry with its     *)
(*     process-wide TLS override, and fetchBancoDeBogotaPdf with its       *)
(*     month fallback;                                                     *)
(*   - the browser-session fetch fetchPdfWithPlaywright;                   *)
(*   - the bank extractors' parse() (parsers/*.ts).                        *)
(* Rates are integers in hundredths of a percent (12,60% is 1260).         *)
(***************************************************************************)
EXTENDS Integers, Sequences, FiniteSets, TLC

VARIABLES
  env,     \* process.env.NODE_TLS_REJECT_UNAUTHORIZED: "unset", "0" or "1"
  env0,    \* its value before any call was made (never written after Init)
  calls,   \* one frame per fetchWithRetry call
  reqs,    \* every fetch() issued so far, in order: [call, url]
  bg,      \* the frame of fetchBancoDeBogotaPdf
  run,     \* the frame of one extractor's parse()
  pw,      \* the frame of fetchPdfWithPlaywright
  app      \* the frame of a caller that applies deduplicateOffers to a list, or
           \* that runs an extractor a second time

vars == <<env, env0, calls, reqs, bg, run, pw, app>>

(***************************************************************************)
(* Bounds of the model                                                     *)
(***************************************************************************)
\* largest explicit `retries` option a caller passes
MaxRetries == 1
\* number of fetchWithRetry frames that may overlap
NumCalls == 2
\* number of phrases on a page of a document
MaxPhrases == 2

\* the longest list of offers deduplicateOffers is applied to
MaxOffers == 3

(***************************************************************************)
(* Program constants                                                       *)
(***************************************************************************)
\* fetch.ts:31  retries = 3
DefaultRetries == 3

Calls == 1..NumCalls

EnvValues == {"unset", "0", "1"}

(***************************************************************************)
(* URLs, responses and errors                                              *)
(***************************************************************************)
Url(base, month, year) == [base |-> base, month |-> month, year |-> year]

NoUrl == Url("", "", 0)

\* URLs whose content no extractor of the model reads
PlainUrls == {Url("https://host-a/document", "", 0),
              Url("https://host-b/document", "", 0)}

\* the non-2xx statuses the servers of the model answer with
FailStatuses == {403, 404, 500}

StatusToken(status) ==
  CASE status = 403 -> "403"
    [] status = 404 -> "404"
    [] status = 500 -> "500"
    [] OTHER -> "0"

StatusText(status) ==
  CASE status = 403 -> "Forbidden"
    [] status = 404 -> "Not Found"
    [] status = 500 -> "Internal Server Error"
    [] OTHER -> ""

NoError == [kind |-> "none", status |-> 0, message |-> <<>>]

\* fetch.ts:60  throw new Error(`HTTP ${response.status}: ${response.statusText}`)
HttpError(status) ==
  [kind |-> "http", status |-> status,
   message |-> <<"HTTP", StatusToken(status), ":", StatusText(status)>>]

\* fetch.ts:48  controller.abort() after timeoutMs: fetch rejects with an AbortError
AbortError == [kind |-> "abort", status |-> 0,
               message |-> <<"This", "operation", "was", "aborted">>]

\* fetch() rejecting on a DNS or connection failure
NetworkError == [kind |-> "network", status |-> 0, message |-> <<"fetch", "failed">>]

AttemptErrors == {HttpError(s) : s \in FailStatuses} \cup {AbortError, NetworkError}

(***************************************************************************)
(* Documents                                                               *)
(* A document is what its text extraction yields: whether the bytes can be *)
(* read at all, and the pages, each a sequence of phrases in extraction    *)
(* order.  A phrase is a piece of text one of the extractors' patterns     *)
(* looks for, with the numerals it carries; a numeral <<i, f>> is the      *)
(* digits of "i,ff".                                                       *)
(***************************************************************************)
Numeral(i, f) == <<i, f>>

Phrase(k, v) == [k |-> k, v |-> v]

SeqsUpTo(S, n) == UNION {[1..m -> S] : m \in 0..n}

\* bytes no PDF reader can open
UnreadableDoc == [readable |-> FALSE, pages |-> <<>>]

\* the content of a URL no extractor reads
OpaqueDoc == [readable |-> TRUE, pages |-> <<>>]

OnePage(text) == [readable |-> TRUE, pages |-> <<text>>]

\* the texts a page holds when it is cut after one of its phrases
Prefixes(text) == {SubSeq(text, 1, n) : n \in 1..Len(text)}

\* numbers.ts (not in src/): "12,50" or "12.50" -> 12.5, here in hundredths
ParseColombianNumber(n) == n[1] * 100 + n[2]

BANCO_DE_BOGOTA_BASE_URL == "https://www.bancodebogota.com/documents/d/guest"

\* the five rate lines of the housing page (davivienda.test.ts:268-301), and a
\* second CREDITO NO VIS line with another rate
BogotaRateLines ==
  {Phrase("CREDITO_NO_VIS", <<Numeral(17, 41)>>),
   Phrase("CREDITO_NO_VIS", <<Numeral(16, 90)>>),
   Phrase("CREDITO_VIS_O_VIP", <<Numeral(15, 71)>>),
   Phrase("LEASING_HABITACIONAL_RATE", <<Numeral(17, 41)>>),
   Phrase("CREDITO_DIRECTO_UVR_NO_VIS", <<Numeral(12, 30)>>),
   Phrase("CREDITO_DIRECTO_UVR_VIS", <<Numeral(10, 60)>>)}

\* the headings "PORTAFOLIO DE VIVIENDA" and "LEASING HABITACIONAL"
BogotaPhrases ==
  {Phrase("PORTAFOLIO_DE_VIVIENDA", <<>>), Phrase("LEASING_HABITACIONAL", <<>>)} \cup
  BogotaRateLines

\* davivienda.test.ts:261-302  the housing page: its heading and the five rate
\* lines
BogotaHousingPage ==
  <<Phrase("PORTAFOLIO_DE_VIVIENDA", <<>>),
    Phrase("CREDITO_NO_VIS", <<Numeral(17, 41)>>),
    Phrase("CREDITO_VIS_O_VIP", <<Numeral(15, 71)>>),
    Phrase("LEASING_HABITACIONAL_RATE", <<Numeral(17, 41)>>),
    Phrase("CREDITO_DIRECTO_UVR_NO_VIS", <<Numeral(12, 30)>>),
    Phrase("CREDITO_DIRECTO_UVR_VIS", <<Numeral(10, 60)>>)>>

BogotaDocs ==
  {UnreadableDoc} \cup {OnePage(t) : t \in SeqsUpTo(BogotaPhrases, MaxPhrases)}
  \cup {OnePage(t) : t \in Prefixes(BogotaHousingPage)}

(***************************************************************************)
(* The documents of the other banks                                        *)
(***************************************************************************)
DAVIVIENDA_SOURCE_URL == "https://www.davivienda.com/documents/d/guest/tasas-tarifas-davivienda"

\* davivienda.ts:51-59  the groups of four percentages of the housing page, a
\* group outside the plausible ranges, and a group at the upper end of both
DaviviendaGroups ==
  {Phrase("PCT4", <<Numeral(12, 60), Numeral(0, 99), Numeral(6, 95), Numeral(0, 56)>>),
   Phrase("PCT4", <<Numeral(12, 50), Numeral(0, 99), Numeral(7, 95), Numeral(0, 64)>>),
   Phrase("PCT4", <<Numeral(45, 0), Numeral(0, 99), Numeral(2, 0), Numeral(0, 56)>>),
   Phrase("PCT4", <<Numeral(14, 0), Numeral(1, 10), Numeral(10, 0), Numeral(0, 80)>>)}

\* the headings "FINANCIACIÓN DE VIVIENDA" and "Crédito Hipotecario"
DaviviendaPhrases ==
  {Phrase("FINANCIACION_DE_VIVIENDA", <<>>), Phrase("CREDITO_HIPOTECARIO", <<>>)} \cup
  DaviviendaGroups

\* davivienda.ts:51-59  page 27 as the comment gives it: the heading, the two
\* hipotecario groups, the two leasing groups
DaviviendaHousingPage ==
  <<Phrase("FINANCIACION_DE_VIVIENDA", <<>>),
    Phrase("PCT4", <<Numeral(12, 60), Numeral(0, 99), Numeral(6, 95), Numeral(0, 56)>>),
    Phrase("PCT4", <<Numeral(12, 50), Numeral(0, 99), Numeral(7, 95), Numeral(0, 64)>>),
    Phrase("PCT4", <<Numeral(12, 10), Numeral(0, 96), Numeral(6, 95), Numeral(0, 56)>>),
    Phrase("PCT4", <<Numeral(11, 0), Numeral(0, 87), Numeral(7, 50), Numeral(0, 60)>>)>>

\* a housing page with more groups than the four of the comment: a group of
\* another product before them and a fifth mortgage group after them
DaviviendaLongPage ==
  <<Phrase("FINANCIACION_DE_VIVIENDA", <<>>),
    Phrase("PCT4", <<Numeral(45, 0), Numeral(0, 99), Numeral(2, 0), Numeral(0, 56)>>),
    Phrase("PCT4", <<Numeral(12, 60), Numeral(0, 99), Numeral(6, 95), Numeral(0, 56)>>),
    Phrase("PCT4", <<Numeral(12, 50), Numeral(0, 99), Numeral(7, 95), Numeral(0, 64)>>),
    Phrase("PCT4", <<Numeral(12, 10), Numeral(0, 96), Numeral(6, 95), Numeral(0, 56)>>),
    Phrase("PCT4", <<Numeral(11, 0), Numeral(0, 87), Numeral(7, 50), Numeral(0, 60)>>),
    Phrase("PCT4", <<Numeral(13, 0), Numeral(1, 2), Numeral(8, 0), Numeral(0, 64)>>)>>

DaviviendaDocs ==
  {UnreadableDoc} \cup {OnePage(t) : t \in SeqsUpTo(DaviviendaPhrases, MaxPhrases)}
  \cup {[readable |-> TRUE, pages |-> <<<<p>>, <<q>>>>] : p, q \in DaviviendaPhrases}
  \cup {OnePage(t) : t \in Prefixes(DaviviendaHousingPage)}
  \cup {OnePage(t) : t \in Prefixes(DaviviendaLongPage)}

BANCO_AGRARIO_SOURCE_PAGE_URL == "https://www.bancoagrario.gov.co/tasas-y-tarifas"

BANCO_AGRARIO_SOURCE_PDF_URL == 
  "https://www.bancoagrario.gov.co/system/files/2026-01/alcance_1_tasas_colocaciones_del_05_al_11_de_enero_2026_0.pdf"

\* banco-agrario.ts:60-114  the rate lines of the housing page as they are
\* written there, the word "HIPOTECARIO", a VIS line written "INTERES", and a
\* NO VIS line in lower case
AgrarioPhrases ==
  {Phrase("HIPOTECARIO", <<>>),
   Phrase("VIVIENDA_DE_INTERES_SOCIAL_EN_UVR", <<Numeral(5, 10)>>),
   Phrase("VIVIENDA_DE_INTERES_SOCIAL_EN_PESOS_ACCENT", <<Numeral(10, 70)>>),
   Phrase("VIVIENDA_DE_INTERES_SOCIAL_EN_PESOS_PLAIN", <<Numeral(12, 0)>>),
   Phrase("VIVIENDA_NO_VIS_EN_UVR", <<Numeral(6, 10)>>),
   Phrase("VIVIENDA_NO_VIS_EN_PESOS", <<Numeral(12, 50)>>),
   Phrase("vivienda_no_vis_en_pesos", <<Numeral(13, 0)>>)}

\* banco-agrario.ts:60-151  the housing page: the four hipotecario lines, then
\* the two leasing lines
AgrarioHousingPage ==
  <<Phrase("HIPOTECARIO", <<>>),
    Phrase("VIVIENDA_DE_INTERES_SOCIAL_EN_UVR", <<Numeral(5, 10)>>),
    Phrase("VIVIENDA_DE_INTERES_SOCIAL_EN_PESOS_ACCENT", <<Numeral(10, 70)>>),
    Phrase("VIVIENDA_NO_VIS_EN_UVR", <<Numeral(6, 10)>>),
    Phrase("VIVIENDA_NO_VIS_EN_PESOS", <<Numeral(12, 50)>>),
    Phrase("VIVIENDA_DE_INTERES_SOCIAL_EN_PESOS_PLAIN", <<Numeral(12, 0)>>),
    Phrase("vivienda_no_vis_en_pesos", <<Numeral(13, 0)>>)>>

\* housing pages whose leasing VIS rate stands exactly 0,50 above the
\* hipotecario VIS rate in pesos: as doubles 8.05 - 7.55 exceeds 0.5 and
\* 12.5 - 12 does not
AgrarioHalfApartPages ==
  {<<Phrase("HIPOTECARIO", <<>>),
     Phrase("VIVIENDA_DE_INTERES_SOCIAL_EN_PESOS_ACCENT", <<Numeral(7, 55)>>),
     Phrase("VIVIENDA_DE_INTERES_SOCIAL_EN_PESOS_PLAIN", <<Numeral(8, 5)>>),
     Phrase("VIVIENDA_NO_VIS_EN_PESOS", <<Numeral(12, 50)>>)>>,
   <<Phrase("HIPOTECARIO", <<>>),
     Phrase("VIVIENDA_DE_INTERES_SOCIAL_EN_PESOS_ACCENT", <<Numeral(12, 0)>>),
     Phrase("VIVIENDA_DE_INTERES_SOCIAL_EN_PESOS_PLAIN", <<Numeral(12, 50)>>),
     Phrase("VIVIENDA_NO_VIS_EN_PESOS", <<Numeral(13, 0)>>)>>}

AgrarioDocs ==
  {UnreadableDoc} \cup {OnePage(t) : t \in SeqsUpTo(AgrarioPhrases, MaxPhrases)}
  \cup {OnePage(t) : t \in Prefixes(AgrarioHousingPage)}
  \cup {OnePage(t) : t \in AgrarioHalfApartPages}

BANCOOMEVA_RATES_PAGE_URL == "https://www.bancoomeva.com.co/publicaciones/164289/tasas-de-credito/"

BANCOOMEVA_DOWNLOAD_URL == "https://www.bancoomeva.com.co/descargar.php?idFile="

\* bancoomeva.ts:136  the rates page, with or without a descargar.php?idFile= link
BancoomevaPages ==
  {OnePage(<<>>), OnePage(<<Phrase("DESCARGAR_ID_FILE", <<Numeral(41234, 0)>>)>>)}

\* bancoomeva.ts:63-119  the four housing lines of a page
BancoomevaPhrases ==
  {Phrase("COMPRA_VIVIENDA_URBANA", <<Numeral(14, 30)>>),
   Phrase("VIVIENDA_UVR_NO_VIS", <<Numeral(8, 30)>>),
   Phrase("VIS_EN_PESOS", <<Numeral(13, 89)>>),
   Phrase("VIVIENDA_VIS_UVR", <<Numeral(8, 55)>>)}

\* documents of one page, and documents of four pages with housing lines on
\* the first and the fourth
\* bancoomeva.ts:63-119  a page with the four housing lines
BancoomevaHousingPage ==
  <<Phrase("COMPRA_VIVIENDA_URBANA", <<Numeral(14, 30)>>),
    Phrase("VIVIENDA_UVR_NO_VIS", <<Numeral(8, 30)>>),
    Phrase("VIS_EN_PESOS", <<Numeral(13, 89)>>),
    Phrase("VIVIENDA_VIS_UVR", <<Numeral(8, 55)>>)>>

BancoomevaDocs ==
  {UnreadableDoc} \cup {OnePage(t) : t \in SeqsUpTo(BancoomevaPhrases, MaxPhrases)}
  \cup {[readable |-> TRUE, pages |-> <<t, <<>>, <<>>, u>>] :
          t \in SeqsUpTo(BancoomevaPhrases, MaxPhrases),
          u \in SeqsUpTo(BancoomevaPhrases, 1)}
  \cup {[readable |-> TRUE, pages |-> <<BancoomevaHousingPage, <<>>, <<>>, u>>] :
          u \in {<<>>, BancoomevaHousingPage}}

FNA_SOURCE_URL == "https://www.fna.gov.co/sobre-el-fna/tasas"

\* fna.ts:195-216  a row of a rates table: the digits of its first two cells and
\* the rate of its third
FnaRow(fromCell, toCell, rate) == Phrase("ROW", <<fromCell, toCell, rate>>)

\* fna.ts:161-191  what a table's caption and section say, then its rows
FnaRows ==
  {FnaRow({"0"}, {"2"}, Numeral(9, 50)), FnaRow({"0"}, {"2"}, Numeral(10, 0)),
   FnaRow({"2"}, {"4"}, Numeral(10, 50)), FnaRow({"4"}, {}, Numeral(11, 0)),
   FnaRow({"6"}, {"8"}, Numeral(12, 0))}

\* fna.ts:161-191  a caption as the words it holds, with the words of the
\* heading of its section
FnaCaption(captionWords, sectionWords) == Phrase("CAPTION", <<captionWords, sectionWords>>)

FnaCaptions ==
  {FnaCaption({"Cesantías", "Pesos"}, {"Crédito"}),
   FnaCaption({"AVC", "E.A"}, {"Crédito"}),
   FnaCaption({"Cesantias", "UVR"}, {"Crédito"}),
   FnaCaption({"AVC", "Pesos"}, {"Leasing"}),
   FnaCaption({"Tasa", "única"}, {"Crédito"}),
   FnaCaption({}, {"Crédito"})}

\* a table: a caption and up to MaxPhrases rows
FnaTables == {<<c>> \o rows : c \in FnaCaptions, rows \in SeqsUpTo(FnaRows, MaxPhrases)}

\* the page: no table, one table, or two tables with one row each
\* fna.ts:161-232  the rates page with the tables of both funding sources in
\* pesos and the Cesantias table in UVR, each with a 0-2 and a 4+ row
FnaRatesPage ==
  <<<<FnaCaption({"Cesantías", "Pesos"}, {"Crédito"}),
      FnaRow({"0"}, {"2"}, Numeral(10, 0)), FnaRow({"4"}, {}, Numeral(11, 0))>>,
    <<FnaCaption({"AVC", "E.A"}, {"Crédito"}),
      FnaRow({"0"}, {"2"}, Numeral(9, 50)), FnaRow({"4"}, {}, Numeral(11, 0))>>,
    <<FnaCaption({"Cesantias", "UVR"}, {"Crédito"}),
      FnaRow({"0"}, {"2"}, Numeral(9, 50)), FnaRow({"4"}, {}, Numeral(11, 0))>>>>

FnaDocs ==
  {OpaqueDoc} \cup {OnePage(t) : t \in FnaTables}
  \cup {[readable |-> TRUE, pages |-> <<t, u>>] :
          t, u \in {<<c, r>> : c \in FnaCaptions, r \in FnaRows}}
  \cup {[readable |-> TRUE, pages |-> FnaRatesPage]}

BANCO_DE_OCCIDENTE_SOURCE_URL ==
  "https://www.bancodeoccidente.com.co/banco-de-occidente/documentos/tasas-tarifas/para-personas/tasas/tasas-personas.pdf"

BANCO_DE_OCCIDENTE_MAIN_PAGE_URL == "https://www.bancodeoccidente.com.co/"

\* part_003:119-125  the headings of the housing page and runs of consecutive
\* percentages
OccidentePhrases ==
  {Phrase("TASAS_VIVIENDA", <<>>), Phrase("VIVIENDA_UPPER_CASE", <<>>),
   Phrase("CREDITO_HIPOTECARIO_LEASING_HABITACIONAL", <<>>),
   Phrase("DESDE_HASTA_DESDE_HASTA", <<>>),
   Phrase("RATES", <<Numeral(11, 62), Numeral(16, 51), Numeral(11, 25), Numeral(16, 0)>>),
   Phrase("RATES", <<Numeral(16, 51), Numeral(11, 62)>>)}

OccidenteDocs ==
  {UnreadableDoc} \cup {OnePage(t) : t \in SeqsUpTo(OccidentePhrases, MaxPhrases + 1)}

ITAU_SOURCE_URL == "https://banco.itau.co/web/personas/informacion-de-interes/tasas-y-tarifas"

\* part_003:383-393  "Adquisición de vivienda nueva y usada" with and without
\* its "Desde ... Hasta ..." rates, and the heading "Leasing habitacional"
ItauPhrases ==
  {Phrase("ADQUISICION_DE_VIVIENDA", <<>>),
   Phrase("ADQUISICION_DE_VIVIENDA_DESDE_HASTA", <<Numeral(13, 14), Numeral(13, 46)>>),
   Phrase("ADQUISICION_DE_VIVIENDA_DESDE_HASTA", <<Numeral(12, 90), Numeral(12, 50)>>),
   Phrase("LEASING_HABITACIONAL", <<>>)}

ItauDocs ==
  {UnreadableDoc} \cup {OnePage(t) : t \in SeqsUpTo(ItauPhrases, MaxPhrases + 1)}

\* what a server answers a 2xx with
ServedDocs(url) ==
  CASE url.base = BANCO_DE_BOGOTA_BASE_URL -> BogotaDocs
    [] url.base = DAVIVIENDA_SOURCE_URL -> DaviviendaDocs
    [] url.base = BANCO_AGRARIO_SOURCE_PDF_URL -> AgrarioDocs
    [] url.base = BANCOOMEVA_RATES_PAGE_URL -> BancoomevaPages
    [] url.base = BANCOOMEVA_DOWNLOAD_URL -> BancoomevaDocs
    [] url.base = FNA_SOURCE_URL -> FnaDocs
    [] OTHER -> {OpaqueDoc}

NoContent == [origin |-> NoUrl, doc |-> UnreadableDoc]

NoResult == [content |-> NoContent, statusCode |-> 0]

(***************************************************************************)
(* fetchWithRetry                                                          *)
(***************************************************************************)
\* fetch.ts:30-36  the options with their defaults
Options(hasRetries, retries, skip) ==
  [hasRetries |-> hasRetries, retries |-> retries, skipSslVerification |-> skip]

OptionSet ==
  {Options(FALSE, 0, s) : s \in BOOLEAN} \cup
  {Options(TRUE, r, s) : r \in 0..MaxRetries, s \in BOOLEAN}

EffectiveRetries(opts) == IF opts.hasRetries THEN opts.retries ELSE DefaultRetries

IdleCall ==
  [pc |-> "idle", url |-> NoUrl, skip |-> FALSE, retries |-> 0,
   orig |-> "unset", before |-> "unset", attempts |-> 0, failed |-> 0,
   error |-> NoError, result |-> NoResult]

\* fetch.ts:39-42  the flag as the call leaves it before the first attempt
OverrideTls(skip, cur) == IF skip THEN "0" ELSE cur

\* a restore that assigns the saved value even when the flag was unset before
RestoreTlsNoDelete(skip, orig, cur) ==
  IF skip THEN (IF orig = "unset" THEN "0" ELSE orig) ELSE cur

\* fetch.ts:83-92  the finally block
RestoreTls(skip, orig, cur) ==
  IF skip THEN orig ELSE cur

\* p-retry treats each failed attempt as final once no retry is left
\* a variant that gives up one attempt early
RetriesLeftOffByOne(attempts, retries) == attempts < retries

\* fetch.ts:45,77  pRetry(..., {retries}): another attempt follows a failure while
\* fewer than retries + 1 attempts were made
RetriesLeft(attempts, retries) == attempts < retries + 1

\* fetch.ts:30-51  the synchronous prefix of a call: defaults, the TLS override,
\* and the first attempt's fetch()
FetchStart(c, url, opts) ==
  /\ calls[c].pc = "idle"
  /\ env' = OverrideTls(opts.skipSslVerification, env)
  /\ calls' = [calls EXCEPT ![c] =
       [IdleCall EXCEPT !.pc = "fetching", !.url = url,
                        !.skip = opts.skipSslVerification,
                        !.retries = EffectiveRetries(opts),
                        !.orig = env, !.before = env, !.attempts = 1]]
  /\ reqs' = Append(reqs, [call |-> c, url |-> url])

\* a caller of the module starts a call
CallerStart(c) ==
  /\ \E url \in PlainUrls, opts \in OptionSet : FetchStart(c, url, opts)
  /\ UNCHANGED <<env0, app, bg, run, pw>>

\* fetch.ts:51-71  the attempt's response is 2xx: pRetry resolves with the result
AttemptOk(c) ==
  /\ calls[c].pc = "fetching"
  /\ \E d \in ServedDocs(calls[c].url) :
       calls' = [calls EXCEPT ![c].pc = "resolved",
                              ![c].result = [content |-> [origin |-> calls[c].url, doc |-> d],
                                             statusCode |-> 200]]
  /\ UNCHANGED <<env, env0, app, reqs, bg, run, pw>>

\* fetch.ts:48-61,78-80  the attempt fails (abort at timeoutMs, non-2xx, network
\* error); onFailedAttempt logs it; pRetry waits for the next attempt or rejects
AttemptFail(c) ==
  /\ calls[c].pc = "fetching"
  /\ \E e \in AttemptErrors :
       calls' = [calls EXCEPT
         ![c].failed = @ + 1,
         ![c].pc = IF RetriesLeft(calls[c].attempts, calls[c].retries)
                   THEN "backoff" ELSE "rejected",
         ![c].error = IF RetriesLeft(calls[c].attempts, calls[c].retries)
                      THEN NoError ELSE e]
  /\ UNCHANGED <<env, env0, app, reqs, bg, run, pw>>

\* p-retry's timer fires: the next attempt's fetch() is issued
Retry(c) ==
  /\ calls[c].pc = "backoff"
  /\ calls' = [calls EXCEPT ![c].pc = "fetching", ![c].attempts = @ + 1]
  /\ reqs' = Append(reqs, [call |-> c, url |-> calls[c].url])
  /\ UNCHANGED <<env, env0, app, bg, run, pw>>

\* fetch.ts:83-92  the finally block runs, then the call returns or throws
Finally(c) ==
  /\ calls[c].pc \in {"resolved", "rejected"}
  /\ env' = RestoreTls(calls[c].skip, calls[c].orig, env)
  /\ calls' = [calls EXCEPT ![c].pc = IF calls[c].pc = "resolved"
                                      THEN "returned" ELSE "thrown"]
  /\ UNCHANGED <<env0, app, reqs, bg, run, pw>>

Settled(c) == calls[c].pc \in {"returned", "thrown"}

(***************************************************************************)
(* fetchBancoDeBogotaPdf                                                   *)
(***************************************************************************)
\* fetch.ts:96-109
SPANISH_MONTHS ==
  <<"enero", "febrero", "marzo", "abril", "mayo", "junio", "julio", "agosto",
    "septiembre", "octubre", "noviembre", "diciembre">>

\* new Date(): the months the model runs in (getMonth() is 0-based)
Nows == {[year |-> 2026, month |-> 0], [year |-> 2026, month |-> 9]}

\* new Date(year, monthIndex, 1): a month index outside 0..11 carries into the year
JsDate(year, monthIndex) ==
  LET total == year * 12 + monthIndex
  IN [year |-> total \div 12, month |-> total % 12]

\* a month computation that does not carry into the year
PrevDateNoCarry(now) == [year |-> now.year, month |-> (now.month + 11) % 12]

\* fetch.ts:138
PrevDate(now) == JsDate(now.year, now.month - 1)

\* fetch.ts:127-129, 139-141
MonthUrl(date) == Url(BANCO_DE_BOGOTA_BASE_URL, SPANISH_MONTHS[date.month + 1], date.year)

\* whether `part` occurs in `message` (String.prototype.includes, on tokens)
Includes(message, part) ==
  \E i \in 0..(Len(message) - Len(part)) :
    \A j \in 1..Len(part) : message[i + j] = part[j]

\* a test for any HTTP error
IsHttpAny(error) == Includes(error.message, <<"HTTP">>)

\* fetch.ts:113-115
IsHttp404(error) == Includes(error.message, <<"HTTP", "404">>)

\* the fallback reporting the URL it first tried
ResolvedUrlOriginal(currentUrl, prevUrl) == currentUrl

\* fetch.ts:147  resolvedUrl of the fallback's result
ResolvedUrlFallback(currentUrl, prevUrl) == prevUrl

\* a fallback that is not retried
FallbackNoRetry(opts) == [opts EXCEPT !.hasRetries = TRUE, !.retries = 0]

\* fetch.ts:146  the fallback is fetched with the caller's options
FallbackOptions(opts) == opts

\* fetch.ts:132  { ...options, retries: 0 }
CurrentOptions(opts) == [opts EXCEPT !.hasRetries = TRUE, !.retries = 0]

NoOptions == Options(FALSE, 0, FALSE)

IdleBg ==
  [pc |-> "idle", caller |-> "none", now |-> [year |-> 0, month |-> 0],
   opts |-> NoOptions, result |-> NoResult, resolvedUrl |-> NoUrl, error |-> NoError]

\* fetch.ts:124-132  up to the await of the current month's fetch
BgBegin(caller, opts) ==
  /\ bg.pc = "idle"
  /\ \E now \in Nows :
       /\ bg' = [IdleBg EXCEPT !.pc = "current", !.caller = caller, !.now = now, !.opts = opts]
       /\ FetchStart(1, MonthUrl(now), CurrentOptions(opts))

\* a caller other than the extractor
BgCallerStart ==
  /\ run.pc = "idle"
  /\ \E opts \in OptionSet : BgBegin("direct", opts)
  /\ UNCHANGED <<env0, app, run, pw>>

\* fetch.ts:132-133  the current month's fetch returned
BgCurrentReturned ==
  /\ bg.pc = "current"
  /\ calls[1].pc = "returned"
  /\ bg' = [bg EXCEPT !.pc = "returned", !.result = calls[1].result,
                      !.resolvedUrl = MonthUrl(bg.now)]
  /\ UNCHANGED <<env, env0, app, calls, reqs, run, pw>>

\* fetch.ts:134-146  the current month's fetch threw a 404: the fallback starts
BgFallback ==
  /\ bg.pc = "current"
  /\ calls[1].pc = "thrown"
  /\ IsHttp404(calls[1].error)
  /\ bg' = [bg EXCEPT !.pc = "previous"]
  /\ FetchStart(2, MonthUrl(PrevDate(bg.now)), FallbackOptions(bg.opts))
  /\ UNCHANGED <<env0, app, run, pw>>

\* fetch.ts:134-136,149  the current month's fetch threw something else
BgCurrentThrown ==
  /\ bg.pc = "current"
  /\ calls[1].pc = "thrown"
  /\ ~IsHttp404(calls[1].error)
  /\ bg' = [bg EXCEPT !.pc = "thrown", !.error = calls[1].error]
  /\ UNCHANGED <<env, env0, app, calls, reqs, run, pw>>

\* fetch.ts:146-147  the fallback returned
BgPreviousReturned ==
  /\ bg.pc = "previous"
  /\ calls[2].pc = "returned"
  /\ bg' = [bg EXCEPT !.pc = "returned", !.result = calls[2].result,
                      !.resolvedUrl = ResolvedUrlFallback(MonthUrl(bg.now),
                                                          MonthUrl(PrevDate(bg.now)))]
  /\ UNCHANGED <<env, env0, app, calls, reqs, run, pw>>

\* fetch.ts:146  the fallback threw: the rejection leaves the catch block
BgPreviousThrown ==
  /\ bg.pc = "previous"
  /\ calls[2].pc = "thrown"
  /\ bg' = [bg EXCEPT !.pc = "thrown", !.error = calls[2].error]
  /\ UNCHANGED <<env, env0, app, calls, reqs, run, pw>>

(***************************************************************************)
(* Offers                                                                  *)
(***************************************************************************)
\* hash.ts (not in src/): the SHA-256 hex digest, kept as the value it digests
Sha256(content) == [empty |-> FALSE, of |-> content]

\* the empty string where a digest is expected
EmptyHash == [empty |-> TRUE, of |-> NoContent]

\* hash.ts (not in src/): a digest prefix of the identifying tuple
GenerateOfferId(bank_id, product_type, currency_index, segment, channel, rate_from) ==
  <<bank_id, product_type, currency_index, segment, channel, rate_from>>

Extracted(productType, currencyIndex, segment, channel, rateFrom, hasTo, rateTo) ==
  [productType |-> productType, currencyIndex |-> currencyIndex, segment |-> segment,
   channel |-> channel, rateFrom |-> rateFrom, hasTo |-> hasTo, rateTo |-> rateTo]

\* a rate built as a fixed rate whatever the currency index is
RateOfFixed(extracted) ==
  [kind |-> "COP_FIXED",
   from |-> extracted.rateFrom, hasTo |-> extracted.hasTo, to |-> extracted.rateTo]

\* davivienda.ts:194-208 (and the same lines of the other extractors)
RateOf(extracted) ==
  [kind |-> IF extracted.currencyIndex = "UVR" THEN "UVR_SPREAD" ELSE "COP_FIXED",
   from |-> extracted.rateFrom, hasTo |-> extracted.hasTo, to |-> extracted.rateTo]

\* a source that carries no fingerprint
OfferSourceNoFingerprint(f) ==
  [url |-> f.sourceUrl, retrieved_at |-> f.retrievedAt,
   extracted_text_fingerprint |-> EmptyHash]

\* davivienda.ts:228-233 (and the same lines of the other extractors)
OfferSource(f) ==
  [url |-> f.sourceUrl, retrieved_at |-> f.retrievedAt,
   extracted_text_fingerprint |-> f.rawTextHash]

\* a variant that puts the instant of the run into the id
BuildOfferTimedId(f, extracted) ==
  [id |-> <<GenerateOfferId(f.bank, extracted.productType, extracted.currencyIndex,
                            extracted.segment, extracted.channel, extracted.rateFrom),
            f.retrievedAt>>,
   bank_id |-> f.bank,
   product_type |-> extracted.productType,
   currency_index |-> extracted.currencyIndex,
   segment |-> extracted.segment,
   channel |-> extracted.channel,
   rate |-> RateOf(extracted),
   source |-> [url |-> f.sourceUrl, retrieved_at |-> f.retrievedAt,
               extracted_text_fingerprint |-> f.rawTextHash]]

\* davivienda.ts:210-239 (and the same lines of the other extractors)
BuildOffer(f, extracted) ==
  [id |-> GenerateOfferId(f.bank, extracted.productType, extracted.currencyIndex,
                          extracted.segment, extracted.channel, extracted.rateFrom),
   bank_id |-> f.bank,
   product_type |-> extracted.productType,
   currency_index |-> extracted.currencyIndex,
   segment |-> extracted.segment,
   channel |-> extracted.channel,
   rate |-> RateOf(extracted),
   source |-> OfferSource(f)]

Warning(kind, n) == [kind |-> kind, n |-> n]

\* pageTexts.join(" ")
RECURSIVE JoinPages(_)
JoinPages(pages) ==
  IF pages = <<>> THEN <<>> ELSE Head(pages) \o JoinPages(Tail(pages))

\* the index of the first phrase of `text` whose kind is in `kinds`, 0 if none
FirstIndex(text, kinds) ==
  LET hits == {i \in 1..Len(text) : text[i].k \in kinds}
  IN IF hits = {} THEN 0 ELSE CHOOSE i \in hits : \A j \in hits : i <= j

HasPhrase(text, kinds) == FirstIndex(text, kinds) > 0

(***************************************************************************)
(* Banco de Bogota (the file davivienda.test.ts holds banco-de-bogota.ts   *)
(* from its line 193 on)                                                   *)
(***************************************************************************)
\* davivienda.test.ts:261-302  productPatterns, in their order
BogotaPatterns ==
  <<[kind |-> "CREDITO_NO_VIS", productType |-> "HIPOTECARIO",
     currencyIndex |-> "COP", segment |-> "NO_VIS"],
    [kind |-> "CREDITO_VIS_O_VIP", productType |-> "HIPOTECARIO",
     currencyIndex |-> "COP", segment |-> "VIS"],
    [kind |-> "LEASING_HABITACIONAL_RATE", productType |-> "LEASING",
     currencyIndex |-> "COP", segment |-> "UNKNOWN"],
    [kind |-> "CREDITO_DIRECTO_UVR_NO_VIS", productType |-> "HIPOTECARIO",
     currencyIndex |-> "UVR", segment |-> "NO_VIS"],
    [kind |-> "CREDITO_DIRECTO_UVR_VIS", productType |-> "HIPOTECARIO",
     currencyIndex |-> "UVR", segment |-> "VIS"]>>

\* davivienda.test.ts:256-321  parseViviendaSection
BogotaParseViviendaSection(text) ==
  LET hits == SelectSeq(BogotaPatterns, LAMBDA p : HasPhrase(text, {p.kind}))
  IN [i \in 1..Len(hits) |->
        Extracted(hits[i].productType, hits[i].currencyIndex, hits[i].segment,
                  "UNSPECIFIED",
                  ParseColombianNumber(text[FirstIndex(text, {hits[i].kind})].v[1]),
                  FALSE, 0)]

\* davivienda.test.ts:358-361  the section markers
BogotaMarker(text) ==
  \/ HasPhrase(text, {"PORTAFOLIO_DE_VIVIENDA"})
  \/ HasPhrase(text, {"LEASING_HABITACIONAL", "LEASING_HABITACIONAL_RATE"})

\* davivienda.test.ts:217,325  sourceUrl before any URL was resolved
BogotaDefaultSourceUrl == Url(BANCO_DE_BOGOTA_BASE_URL, "", 0)

(***************************************************************************)
(* parse(): the frame of one run of an extractor                           *)
(***************************************************************************)
\* types.ts:19-22  ParserConfig; fixturesPath is "" when it is not given
ParserConfig(useFixtures, fixturesPath) ==
  [useFixtures |-> useFixtures, fixturesPath |-> fixturesPath]

FixturePaths == {"", "fixtures/rates"}

ParserConfigs == {ParserConfig(u, p) : u \in BOOLEAN, p \in FixturePaths}

\* the instant of new Date().toISOString()
Instants == {"T1", "T2"}

IdleRun ==
  [pc |-> "idle", bank |-> "none", config |-> ParserConfig(FALSE, ""),
   retrievedAt |-> "", sourceUrl |-> NoUrl, bytes |-> NoContent,
   rawTextHash |-> EmptyHash, stages |-> <<>>, returned |-> FALSE,
   offers |-> <<>>, warnings |-> <<>>, error |-> NoError]

\* the BankParseResult a run returned
Result(f) ==
  [bank_id |-> f.bank, offers |-> f.offers, warnings |-> f.warnings,
   raw_text_hash |-> f.rawTextHash]

\* return { bank_id, offers, warnings, raw_text_hash }
Return(f, offers, warnings) ==
  [f EXCEPT !.pc = "returned", !.returned = TRUE, !.offers = offers,
            !.warnings = warnings]

\* a rejection leaving parse()
Throw(f, error) == [f EXCEPT !.pc = "thrown", !.error = error]

\* readFile() of a path that does not exist
EnoentError == [kind |-> "enoent", status |-> 0, message |-> <<"ENOENT">>]

\* pdfjs getDocument() rejecting bytes it cannot read
InvalidPdfError == [kind |-> "pdf", status |-> 0, message |-> <<"Invalid", "PDF", "structure">>]

\* a validation that also warns when exactly `min` offers were built
BuildResultAtMost(f, extractedRates, min, warnings) ==
  LET offers == [i \in 1..Len(extractedRates) |-> BuildOffer(f, extractedRates[i])]
  IN Return([f EXCEPT !.stages = Append(@, "build")], offers,
            IF Len(offers) <= min
            THEN Append(warnings, Warning("ONLY_EXTRACTED", Len(offers)))
            ELSE warnings)

\* the rates table every offer kind of a result is built from, "Only extracted"
\* when fewer than `min` offers were built
BuildResult(f, extractedRates, min, warnings) ==
  LET offers == [i \in 1..Len(extractedRates) |-> BuildOffer(f, extractedRates[i])]
  IN Return([f EXCEPT !.stages = Append(@, "build")], offers,
            IF Len(offers) < min
            THEN Append(warnings, Warning("ONLY_EXTRACTED", Len(offers)))
            ELSE warnings)

\* davivienda.test.ts:354-440  BancoDeBogotaParser.parse after the text was extracted
BogotaParseText(f, pageTexts) ==
  LET fullText == JoinPages(pageTexts)
      g == [f EXCEPT !.stages = Append(@, "match")]
      extractedRates == BogotaParseViviendaSection(fullText)
  IN IF ~BogotaMarker(fullText)
     THEN Return(g, <<>>, <<Warning("SECTION_NOT_FOUND", 0)>>)
     ELSE IF Len(extractedRates) = 0
     THEN Return(g, <<>>, <<Warning("NO_RATES", 0)>>)
     ELSE BuildResult(g, extractedRates, 4, <<>>)

(***************************************************************************)
(* Davivienda                                                              *)
(***************************************************************************)
\* davivienda.ts:82  ratePattern: one or two digits before the first comma (of a
\* longer number the last two), one digit before each of the other three
DaviviendaRateMatch(phrase) ==
  /\ phrase.k = "PCT4"
  /\ \A j \in 2..4 : phrase.v[j][1] <= 9

\* the first captured number of a match
DaviviendaFirst(phrase) == Numeral(phrase.v[1][1] % 100, phrase.v[1][2])

\* a filter that lets every match pass
DaviviendaPlausibleAny(phrase) == phrase.k = "PCT4"

\* davivienda.ts:87-92  the plausibility filter
DaviviendaPlausible(phrase) ==
  LET copEa == ParseColombianNumber(DaviviendaFirst(phrase))
      uvrEa == ParseColombianNumber(phrase.v[3])
  IN copEa >= 1000 /\ copEa <= 1400 /\ uvrEa >= 500 /\ uvrEa <= 1000

\* davivienda.ts:99-108  rateConfigs
DaviviendaRateConfigs ==
  <<[productType |-> "HIPOTECARIO", segment |-> "VIS"],
    [productType |-> "HIPOTECARIO", segment |-> "NO_VIS"],
    [productType |-> "LEASING", segment |-> "VIS"],
    [productType |-> "LEASING", segment |-> "NO_VIS"]>>

\* the 0-based index of the first page with the heading, -1 if none
DaviviendaPageIndex(pageTexts) ==
  LET hits == {i \in 1..Len(pageTexts) : HasPhrase(pageTexts[i], {"FINANCIACION_DE_VIVIENDA"})}
  IN IF hits = {} THEN -1 ELSE (CHOOSE i \in hits : \A j \in hits : i <= j) - 1

\* a variant that reads the UVR rate from the fourth percentage, the monthly one
RECURSIVE DaviviendaRatesMonthly(_, _)
DaviviendaRatesMonthly(mortgageMatches, i) ==
  IF i > Len(DaviviendaRateConfigs) \/ i > Len(mortgageMatches) THEN <<>>
  ELSE LET config == DaviviendaRateConfigs[i]
           match == mortgageMatches[i]
       IN <<Extracted(config.productType, "COP", config.segment, "UNSPECIFIED",
                      ParseColombianNumber(DaviviendaFirst(match)), FALSE, 0),
            Extracted(config.productType, "UVR", config.segment, "UNSPECIFIED",
                      ParseColombianNumber(match.v[4]), FALSE, 0)>>
          \o DaviviendaRatesMonthly(mortgageMatches, i + 1)

\* davivienda.ts:110-134  the COP and the UVR rate of each configured match
RECURSIVE DaviviendaRates(_, _)
DaviviendaRates(mortgageMatches, i) ==
  IF i > Len(DaviviendaRateConfigs) \/ i > Len(mortgageMatches) THEN <<>>
  ELSE LET config == DaviviendaRateConfigs[i]
           match == mortgageMatches[i]
       IN <<Extracted(config.productType, "COP", config.segment, "UNSPECIFIED",
                      ParseColombianNumber(DaviviendaFirst(match)), FALSE, 0),
            Extracted(config.productType, "UVR", config.segment, "UNSPECIFIED",
                      ParseColombianNumber(match.v[3]), FALSE, 0)>>
          \o DaviviendaRates(mortgageMatches, i + 1)

\* davivienda.ts:61-137  parseViviendaSection
DaviviendaParseViviendaSection(pageTexts) ==
  LET viviendaPageIndex == DaviviendaPageIndex(pageTexts)
  IN IF viviendaPageIndex = -1 THEN <<>>
     ELSE LET viviendaText == pageTexts[viviendaPageIndex + 1]
              allMatches == SelectSeq(viviendaText, DaviviendaRateMatch)
              mortgageMatches == SelectSeq(allMatches, DaviviendaPlausible)
          IN DaviviendaRates(mortgageMatches, 1)

\* davivienda.ts:176-179  the section markers
DaviviendaMarker(fullText) ==
  HasPhrase(fullText, {"FINANCIACION_DE_VIVIENDA", "CREDITO_HIPOTECARIO"})

\* davivienda.ts:174-257  DaviviendaParser.parse after the text was extracted
DaviviendaParseText(f, pageTexts) ==
  LET fullText == JoinPages(pageTexts)
      g == [f EXCEPT !.stages = Append(@, "match")]
      extractedRates == DaviviendaParseViviendaSection(pageTexts)
  IN IF ~DaviviendaMarker(fullText)
     THEN Return(g, <<>>, <<Warning("SECTION_NOT_FOUND", 0)>>)
     ELSE IF Len(extractedRates) = 0
     THEN Return(g, <<>>, <<Warning("NO_RATES", 0)>>)
     ELSE BuildResult(g, extractedRates, 8, <<>>)

(***************************************************************************)
(* Banco Agrario                                                           *)
(***************************************************************************)
\* the rate of the first phrase of `text` whose kind is in `kinds`, as a
\* one-element sequence, or the empty sequence
FirstRate(text, kinds) ==
  IF HasPhrase(text, kinds)
  THEN <<ParseColombianNumber(text[FirstIndex(text, kinds)].v[1])>>
  ELSE <<>>

\* the phrases the patterns of banco-agrario.ts match (all of them with /i)
AgrarioVisUvr == {"VIVIENDA_DE_INTERES_SOCIAL_EN_UVR"}

AgrarioVisCop == {"VIVIENDA_DE_INTERES_SOCIAL_EN_PESOS_ACCENT",
                  "VIVIENDA_DE_INTERES_SOCIAL_EN_PESOS_PLAIN"}

AgrarioNoVisUvr == {"VIVIENDA_NO_VIS_EN_UVR"}

AgrarioNoVisCop == {"VIVIENDA_NO_VIS_EN_PESOS", "vivienda_no_vis_en_pesos"}

\* banco-agrario.ts:119  the leasing pattern begins at "INTERES" without accent
AgrarioLeasingVis == {"VIVIENDA_DE_INTERES_SOCIAL_EN_PESOS_PLAIN"}

\* banco-agrario.ts:60-114  the four hipotecario rates, in the order of the code
AgrarioHipotecarioRates(text) ==
  LET one(kinds, currencyIndex, segment) ==
        LET r == FirstRate(text, kinds)
        IN IF r = <<>> THEN <<>>
           ELSE <<Extracted("HIPOTECARIO", currencyIndex, segment, "UNSPECIFIED",
                            r[1], FALSE, 0)>>
  IN one(AgrarioVisUvr, "UVR", "VIS") \o one(AgrarioVisCop, "COP", "VIS")
     \o one(AgrarioNoVisUvr, "UVR", "NO_VIS") \o one(AgrarioNoVisCop, "COP", "NO_VIS")

\* the doubles of JavaScript, as fixed-point numbers <<units, l1, l2, l3>> with
\* sixty binary places held in three limbs of twenty bits
RECURSIVE Pow2(_)
Pow2(k) == IF k = 0 THEN 1 ELSE 2 * Pow2(k - 1)

Limb == Pow2(20)

\* the number of binary digits of a positive integer
RECURSIVE BitLength(_)
BitLength(i) == IF i = 0 THEN 0 ELSE 1 + BitLength(i \div 2)

\* a carry out of a limb goes into the limb before it
Carried(x) ==
  LET c3 == x[4] \div Limb
      c2 == (x[3] + c3) \div Limb
      c1 == (x[2] + c2) \div Limb
  IN <<x[1] + c1, (x[2] + c2) % Limb, (x[3] + c3) % Limb, x[4] % Limb>>

\* the double nearest to hundredths / 100 (what parseColombianNumber returns for
\* a numeral of two decimals below 4096): the binary expansion of the quotient,
\* cut to 53 significant digits and rounded to nearest, ties to even
DoubleOf(hundredths) ==
  LET units == hundredths \div 100
      r0 == hundredths % 100
      l1 == (r0 * Limb) \div 100
      r1 == (r0 * Limb) % 100
      l2 == (r1 * Limb) \div 100
      r2 == (r1 * Limb) % 100
      l3 == (r2 * Limb) \div 100
      rest == (r2 * Limb) % 100
      \* the places that follow the 53rd significant digit
      dropped == IF units > 0 THEN 7 + BitLength(units) ELSE BitLength(l1) - 13
      q == Pow2(dropped)
      low == l3 % q
      half == q \div 2
      up == \/ low > half
            \/ low = half /\ rest > 0
            \/ low = half /\ rest = 0 /\ (l3 \div q) % 2 = 1
  IN IF hundredths = 0 THEN <<0, 0, 0, 0>>
     ELSE Carried(<<units, l1, l2, l3 - low + (IF up THEN q ELSE 0)>>)

\* x < y
FixedLess(x, y) ==
  \E i \in 1..4 : x[i] < y[i] /\ \A j \in 1..(i - 1) : x[j] = y[j]

\* x - y for y <= x
FixedMinus(x, y) ==
  LET b3 == IF x[4] < y[4] THEN 1 ELSE 0
      b2 == IF x[3] < y[3] + b3 THEN 1 ELSE 0
      b1 == IF x[2] < y[2] + b2 THEN 1 ELSE 0
  IN <<x[1] - y[1] - b1, x[2] - y[2] - b2 + b1 * Limb,
       x[3] - y[3] - b3 + b2 * Limb, x[4] - y[4] + b3 * Limb>>

\* banco-agrario.ts:134  Math.abs(a - b) > 0.5 on doubles: the difference of the
\* two doubles rounds to a double above 0.5 when it exceeds 0.5 + 2^-54, the
\* middle between 0.5 and the next double
AbsDiffAboveHalf(a, b) ==
  LET x == DoubleOf(a)
      y == DoubleOf(b)
      d == IF FixedLess(x, y) THEN FixedMinus(y, x) ELSE FixedMinus(x, y)
  IN FixedLess(<<0, Limb \div 2, 0, 64>>, d)

\* banco-agrario.ts:116-151  the two leasing rates
AgrarioLeasingRates(text, rates) ==
  LET i == FirstIndex(text, AgrarioLeasingVis)
      after == {j \in (i + 1)..Len(text) : text[j].k \in AgrarioNoVisCop}
      hip == SelectSeq(rates, LAMBDA r : r.productType = "HIPOTECARIO"
                                         /\ r.currencyIndex = "COP" /\ r.segment = "VIS")
  IN IF i = 0 \/ after = {} THEN <<>>
     ELSE LET j == CHOOSE j \in after : \A k \in after : j <= k
              leasingVisCop == ParseColombianNumber(text[i].v[1])
              leasingNoVisCop == ParseColombianNumber(text[j].v[1])
          IN IF hip # <<>> /\ AbsDiffAboveHalf(hip[1].rateFrom, leasingVisCop)
             THEN <<Extracted("LEASING", "COP", "VIS", "UNSPECIFIED", leasingVisCop, FALSE, 0),
                    Extracted("LEASING", "COP", "NO_VIS", "UNSPECIFIED", leasingNoVisCop, FALSE, 0)>>
             ELSE <<>>

\* banco-agrario.ts:57-154  parseHousingRates
AgrarioParseHousingRates(text) ==
  LET rates == AgrarioHipotecarioRates(text)
  IN rates \o AgrarioLeasingRates(text, rates)

\* banco-agrario.ts:189  fullText.includes("VIVIENDA") && fullText.includes("HIPOTECARIO"),
\* both case-sensitive
AgrarioMarker(fullText) ==
  /\ HasPhrase(fullText, AgrarioVisUvr \cup AgrarioVisCop \cup AgrarioNoVisUvr
                         \cup {"VIVIENDA_NO_VIS_EN_PESOS"})
  /\ HasPhrase(fullText, {"HIPOTECARIO"})

\* banco-agrario.ts:185-265  BancoAgrarioParser.parse after the text was extracted
AgrarioParseText(f, pageTexts) ==
  LET fullText == JoinPages(pageTexts)
      g == [f EXCEPT !.stages = Append(@, "match")]
      warnings == IF ~AgrarioMarker(fullText)
                  THEN <<Warning("SECTION_NOT_FOUND", 0)>> ELSE <<>>
      extractedRates == AgrarioParseHousingRates(fullText)
  IN IF Len(extractedRates) = 0
     THEN Return(g, <<>>, Append(warnings, Warning("NO_RATES", 0)))
     ELSE BuildResult(g, extractedRates, 4, warnings)

(***************************************************************************)
(* Bancoomeva                                                              *)
(***************************************************************************)
\* bancoomeva.ts:63-119  the four patterns, in the order of the code
BancoomevaPatterns ==
  <<[kind |-> "COMPRA_VIVIENDA_URBANA", currencyIndex |-> "COP", segment |-> "NO_VIS"],
    [kind |-> "VIVIENDA_UVR_NO_VIS", currencyIndex |-> "UVR", segment |-> "NO_VIS"],
    [kind |-> "VIS_EN_PESOS", currencyIndex |-> "COP", segment |-> "VIS"],
    [kind |-> "VIVIENDA_VIS_UVR", currencyIndex |-> "UVR", segment |-> "VIS"]>>

\* a variant that gives the associates' rates the channel of the clients' rates
BancoomevaParseViviendaSectionOneChannel(pageText, isAssociates) ==
  LET hits == SelectSeq(BancoomevaPatterns, LAMBDA p : HasPhrase(pageText, {p.kind}))
  IN [i \in 1..Len(hits) |->
        Extracted("HIPOTECARIO", hits[i].currencyIndex, hits[i].segment, "UNSPECIFIED",
                  FirstRate(pageText, {hits[i].kind})[1], FALSE, 0)]

\* bancoomeva.ts:59-123  parseViviendaSection
BancoomevaParseViviendaSection(pageText, isAssociates) ==
  LET channel == IF isAssociates THEN "BRANCH" ELSE "UNSPECIFIED"
      hits == SelectSeq(BancoomevaPatterns, LAMBDA p : HasPhrase(pageText, {p.kind}))
  IN [i \in 1..Len(hits) |->
        Extracted("HIPOTECARIO", hits[i].currencyIndex, hits[i].segment, channel,
                  FirstRate(pageText, {hits[i].kind})[1], FALSE, 0)]

\* pageTexts[i] || ""  (i 0-based)
PageOrEmpty(pageTexts, i) == IF i + 1 <= Len(pageTexts) THEN pageTexts[i + 1] ELSE <<>>

\* bancoomeva.ts:177-266  BancomevaParser.parse after the text was extracted
BancoomevaParseText(f, pageTexts) ==
  LET g == [f EXCEPT !.stages = Append(@, "match")]
      warnings == IF Len(pageTexts) < 4
                  THEN <<Warning("EXPECTED_PAGES", Len(pageTexts))>> ELSE <<>>
      clientesRates == BancoomevaParseViviendaSection(PageOrEmpty(pageTexts, 0), FALSE)
      asociadosRates == BancoomevaParseViviendaSection(PageOrEmpty(pageTexts, 3), TRUE)
      allExtractedRates == clientesRates \o asociadosRates
  IN IF Len(allExtractedRates) = 0
     THEN Return(g, <<>>, Append(warnings, Warning("NO_RATES", 0)))
     ELSE BuildResult(g, allExtractedRates, 4, warnings)

(***************************************************************************)
(* FNA                                                                     *)
(***************************************************************************)
\* fna.ts:165-171
FnaFundingSource(captionWords) ==
  IF "Cesantías" \in captionWords \/ "Cesantias" \in captionWords THEN "CESANTIAS"
  ELSE IF "AVC" \in captionWords THEN "AVC"
  ELSE "null"

\* fna.ts:173-179
FnaCurrencyIndex(captionWords) ==
  IF "UVR" \in captionWords THEN "UVR"
  ELSE IF "Pesos" \in captionWords \/ "E.A" \in captionWords THEN "COP"
  ELSE "null"

\* fna.ts:187-193
FnaProductType(sectionWords) ==
  IF "Leasing" \in sectionWords THEN "LEASING" ELSE "HIPOTECARIO"

\* fna.ts:205-213
FnaIncomeRange(fromCell, toCell) ==
  IF "0" \in fromCell /\ "2" \in toCell THEN "0-2"
  ELSE IF "2" \in fromCell /\ "4" \in toCell THEN "2-4"
  ELSE IF "4" \in fromCell THEN "4+"
  ELSE "null"

\* fna.ts:196-232  the rates of the rows of a table
FnaTableRates(table) ==
  LET rows == SelectSeq(table, LAMBDA p : p.k = "ROW"
                                          /\ FnaIncomeRange(p.v[1], p.v[2]) # "null")
  IN [i \in 1..Len(rows) |->
        [incomeRange |-> FnaIncomeRange(rows[i].v[1], rows[i].v[2]),
         rate |-> ParseColombianNumber(rows[i].v[3])]]

\* fna.ts:159-244  one table: its TableInfo, or nothing
FnaTableInfo(table) ==
  LET caption == table[1].v
      fundingSource == FnaFundingSource(caption[1])
      currencyIndex == FnaCurrencyIndex(caption[1])
      rates == FnaTableRates(table)
  IN IF caption[1] = {} \/ fundingSource = "null" \/ currencyIndex = "null" \/ rates = <<>>
     THEN <<>>
     ELSE <<[fundingSource |-> fundingSource, currencyIndex |-> currencyIndex,
             productType |-> FnaProductType(caption[2]), rates |-> rates]>>

\* fna.ts:155-250  parseAllTables
RECURSIVE FnaParseAllTables(_)
FnaParseAllTables(tables) ==
  IF tables = <<>> THEN <<>>
  ELSE FnaTableInfo(Head(tables)) \o FnaParseAllTables(Tail(tables))

\* fna.ts:71-76  the VIS (0-2) and the NO_VIS (4+) rate of a table
FnaTableOffers(table) ==
  LET find(range) == SelectSeq(table.rates, LAMBDA r : r.incomeRange = range)
      one(segment, found) ==
        IF found = <<>> THEN <<>>
        ELSE <<[fundingSource |-> table.fundingSource] @@
                 Extracted(table.productType, table.currencyIndex, segment,
                           "UNSPECIFIED", found[1].rate, FALSE, 0)>>
  IN one("VIS", find("0-2")) \o one("NO_VIS", find("4+"))

RECURSIVE FnaExtracted(_)
FnaExtracted(tables) ==
  IF tables = <<>> THEN <<>>
  ELSE FnaTableOffers(Head(tables)) \o FnaExtracted(Tail(tables))

\* fna.ts:88-122  the offer of a rate: the funding source of its table is
\* written into the note of its conditions, its locator and its excerpt
FnaOffer(f, extracted) ==
  [funding |-> IF extracted.fundingSource = "CESANTIAS" THEN "Cesantías" ELSE "AVC"]
  @@ BuildOffer(f, extracted)

\* fna.ts:278-284  getRateValue
GetRateValue(rate) == rate.from

OfferKey(offer) == <<offer.product_type, offer.currency_index, offer.segment>>

\* a variant that keeps the offer with the higher rate
RECURSIVE DedupIntoHighest(_, _)
DedupIntoHighest(groups, offers) ==
  IF offers = <<>> THEN groups
  ELSE LET offer == Head(offers)
           at == {i \in 1..Len(groups) : OfferKey(groups[i]) = OfferKey(offer)}
       IN IF at = {}
          THEN DedupIntoHighest(Append(groups, offer), Tail(offers))
          ELSE LET i == CHOOSE i \in at : TRUE
               IN IF GetRateValue(offer.rate) > GetRateValue(groups[i].rate)
                  THEN DedupIntoHighest([groups EXCEPT ![i] = offer], Tail(offers))
                  ELSE DedupIntoHighest(groups, Tail(offers))

\* a comparison that also replaces the survivor on a tie
ReplacesOnTie(offer, existing) == GetRateValue(offer.rate) <= GetRateValue(existing.rate)

\* fna.ts:266-270  newRate < existingRate
Replaces(offer, existing) == GetRateValue(offer.rate) < GetRateValue(existing.rate)

\* fna.ts:257-273  the Map after the offers were put in, as the list of its
\* values in insertion order of their keys
RECURSIVE DedupInto(_, _)
DedupInto(groups, offers) ==
  IF offers = <<>> THEN groups
  ELSE LET offer == Head(offers)
           at == {i \in 1..Len(groups) : OfferKey(groups[i]) = OfferKey(offer)}
       IN IF at = {}
          THEN DedupInto(Append(groups, offer), Tail(offers))
          ELSE LET i == CHOOSE i \in at : TRUE
               IN IF Replaces(offer, groups[i])
                  THEN DedupInto([groups EXCEPT ![i] = offer], Tail(offers))
                  ELSE DedupInto(groups, Tail(offers))

\* a loop that starts at the second offer
DeduplicateOffersFromSecond(offers) ==
  IF offers = <<>> THEN <<>> ELSE DedupInto(<<>>, Tail(offers))

\* fna.ts:252-276  deduplicateOffers
DeduplicateOffers(offers) == DedupInto(<<>>, offers)

\* fna.ts:57-152  FnaParser.parse after the HTML was read
FnaParseHtml(f, tables) ==
  LET g == [f EXCEPT !.stages = @ \o <<"extract", "match", "build">>]
      extracted == FnaExtracted(FnaParseAllTables(tables))
      offers == [i \in 1..Len(extracted) |-> FnaOffer(g, extracted[i])]
      deduplicatedOffers == DeduplicateOffers(offers)
  IN Return(g, deduplicatedOffers,
            IF Len(deduplicatedOffers) = 0 THEN <<Warning("NO_OFFERS", 0)>>
            ELSE IF Len(deduplicatedOffers) < 4
            THEN <<Warning("ONLY_EXTRACTED", Len(deduplicatedOffers))>>
            ELSE <<>>)

(***************************************************************************)
(* deduplicateOffers applied to a list of offers                           *)
(***************************************************************************)
\* the offers of the lists: two keys, two rates, from the Cesantías table or,
\* through another channel, from the AVC table
DedupeOffers ==
  {FnaOffer([IdleRun EXCEPT !.bank = "FNA", !.retrievedAt = "T1"],
            [fundingSource |-> v[1]] @@
            Extracted("HIPOTECARIO", currencyIndex, "VIS", v[2], rate, FALSE, 0)) :
     currencyIndex \in {"COP", "UVR"}, rate \in {950, 1000},
     v \in {<<"CESANTIAS", "UNSPECIFIED">>, <<"AVC", "BRANCH">>}}

DedupeInputs == SeqsUpTo(DedupeOffers, MaxOffers)

\* a scenario of the ranking: the product type, currency index and channel an
\* offer must have, "ANY" where it may have any
Scenario(productType, currencyIndex, channel) ==
  [product_type |-> productType, currency_index |-> currencyIndex, channel |-> channel]

NoScenario == Scenario("ANY", "ANY", "ANY")

IdleApp ==
  [pc |-> "idle", input |-> <<>>, output |-> <<>>, again |-> <<>>,
   permuted |-> <<>>, permutedOutput |-> <<>>, first |-> IdleRun,
   scenario |-> NoScenario, entries |-> <<>>]

\* the list in another order
Permuted(offers, p) == [i \in 1..Len(offers) |-> offers[p[i]]]

\* deduplicateOffers(input)
DedupeCall ==
  /\ app.pc = "input"
  /\ app' = [app EXCEPT !.pc = "deduped", !.output = DeduplicateOffers(app.input)]
  /\ UNCHANGED <<env, env0, calls, reqs, bg, run, pw>>

\* deduplicateOffers applied to its own result
DedupeAgain ==
  /\ app.pc = "deduped"
  /\ app' = [app EXCEPT !.pc = "again", !.again = DeduplicateOffers(app.output)]
  /\ UNCHANGED <<env, env0, calls, reqs, bg, run, pw>>

\* deduplicateOffers applied to the offers of the input in another order
DedupePermuted ==
  /\ app.pc = "deduped"
  /\ \E p \in Permutations(1..Len(app.input)) :
       app' = [app EXCEPT !.pc = "permuted", !.permuted = Permuted(app.input, p),
                          !.permutedOutput = DeduplicateOffers(Permuted(app.input, p))]
  /\ UNCHANGED <<env, env0, calls, reqs, bg, run, pw>>

(***************************************************************************)
(* rank (spec 4.7; its code is not among the sources)                      *)
(***************************************************************************)
Scenarios ==
  {Scenario("HIPOTECARIO", "COP", "ANY"), Scenario("HIPOTECARIO", "UVR", "ANY"),
   Scenario("HIPOTECARIO", "COP", "BRANCH"), Scenario("LEASING", "COP", "ANY")}

\* the predicate of a scenario
Matches(scenario, offer) ==
  /\ scenario.product_type \in {"ANY", offer.product_type}
  /\ scenario.currency_index \in {"ANY", offer.currency_index}
  /\ scenario.channel \in {"ANY", offer.channel}

\* the comparison value of an offer: the lower bound of its rate
ComparisonValue(offer) == offer.rate.from

\* a sort by descending comparison value
RECURSIVE SortedByValueDescending(_)
SortedByValueDescending(offers) ==
  IF offers = <<>> THEN <<>>
  ELSE LET rest == SortedByValueDescending(SubSeq(offers, 1, Len(offers) - 1))
           last == offers[Len(offers)]
           before == SelectSeq(rest, LAMBDA o : ComparisonValue(o) >= ComparisonValue(last))
           after == SelectSeq(rest, LAMBDA o : ComparisonValue(o) < ComparisonValue(last))
       IN before \o <<last>> \o after

\* the stable sort by ascending comparison value: the last offer is put after
\* the offers of the sorted rest that are not above it
RECURSIVE SortedByValue(_)
SortedByValue(offers) ==
  IF offers = <<>> THEN <<>>
  ELSE LET rest == SortedByValue(SubSeq(offers, 1, Len(offers) - 1))
           last == offers[Len(offers)]
           before == SelectSeq(rest, LAMBDA o : ComparisonValue(o) <= ComparisonValue(last))
           after == SelectSeq(rest, LAMBDA o : ComparisonValue(o) > ComparisonValue(last))
       IN before \o <<last>> \o after

\* the entries of one scenario: the matching offers, sorted, with positions 1..N
Rank(offers, scenario) ==
  LET sorted == SortedByValue(SelectSeq(offers, LAMBDA o : Matches(scenario, o)))
  IN [i \in 1..Len(sorted) |->
        [offer_id |-> sorted[i].id, value |-> ComparisonValue(sorted[i]), position |-> i]]

\* rank(offers, scenarios) for one of the scenarios
RankCall ==
  /\ app.pc = "input"
  /\ \E scenario \in Scenarios :
       app' = [app EXCEPT !.pc = "ranked", !.scenario = scenario,
                          !.entries = Rank(app.input, scenario)]
  /\ UNCHANGED <<env, env0, calls, reqs, bg, run, pw>>

(***************************************************************************)
(* Banco de Occidente                                                      *)
(***************************************************************************)
\* the percentages of the phrases of `text` from index `from` on, in order
RECURSIVE RatesFrom(_, _)
RatesFrom(text, from) ==
  IF from > Len(text) THEN <<>>
  ELSE (IF text[from].k = "RATES" THEN text[from].v ELSE <<>>) \o RatesFrom(text, from + 1)

\* the first index after `after` of a phrase of `text` that satisfies Test, 0 if none
FirstAfter(text, after, Test(_)) ==
  LET hits == {i \in (after + 1)..Len(text) : Test(text[i])}
  IN IF hits = {} THEN 0 ELSE CHOOSE i \in hits : \A j \in hits : i <= j

\* part_003:138-140  viviendaMatch[1]: the first four consecutive percentages
\* after "DESDE HASTA DESDE HASTA" after the heading, or the empty sequence
OccidenteViviendaMatch(text) ==
  LET i == FirstAfter(text, 0, LAMBDA p : p.k \in {"TASAS_VIVIENDA",
                                    "CREDITO_HIPOTECARIO_LEASING_HABITACIONAL"})
      j == IF i = 0 THEN 0
           ELSE FirstAfter(text, i, LAMBDA p : p.k = "DESDE_HASTA_DESDE_HASTA")
      k == IF j = 0 THEN 0
           ELSE FirstAfter(text, j, LAMBDA p : p.k = "RATES" /\ Len(p.v) >= 4)
  IN IF k = 0 THEN <<>> ELSE SubSeq(text[k].v, 1, 4)

\* part_003:216-224  parseRateWithSpaces
ParseRateWithSpaces(rateStr) == ParseColombianNumber(rateStr)

\* part_003:152-176, 183-207  the two offers made of four percentages
OccidenteFromRates(allRates) ==
  IF Len(allRates) >= 4
  THEN <<Extracted("HIPOTECARIO", "COP", "UNKNOWN", "UNSPECIFIED",
                   ParseRateWithSpaces(allRates[1]), TRUE, ParseRateWithSpaces(allRates[2])),
         Extracted("LEASING", "COP", "UNKNOWN", "UNSPECIFIED",
                   ParseRateWithSpaces(allRates[3]), TRUE, ParseRateWithSpaces(allRates[4]))>>
  ELSE <<>>

\* part_003:127-210  parseViviendaSection
OccidenteParseViviendaSection(text) ==
  LET viviendaMatch == OccidenteViviendaMatch(text)
      viviendaIndex == FirstIndex(text, {"TASAS_VIVIENDA"})
  IN IF viviendaMatch = <<>>
     THEN IF viviendaIndex = 0 THEN <<>>
          ELSE OccidenteFromRates(RatesFrom(text, viviendaIndex))
     ELSE OccidenteFromRates(viviendaMatch)

\* part_003:256  /Vivienda/i or /CRÉDITO\s+HIPOTECARIO/i
OccidenteMarker(fullText) ==
  HasPhrase(fullText, {"TASAS_VIVIENDA", "VIVIENDA_UPPER_CASE",
                       "CREDITO_HIPOTECARIO_LEASING_HABITACIONAL"})

\* part_003:252-319  BancoDeOccidenteParser.parse after the text was extracted
OccidenteParseText(f, pageTexts) ==
  LET fullText == JoinPages(pageTexts)
      g == [f EXCEPT !.stages = Append(@, "match")]
      extractedRates == OccidenteParseViviendaSection(fullText)
  IN IF ~OccidenteMarker(fullText)
     THEN Return(g, <<>>, <<Warning("SECTION_NOT_FOUND", 0)>>)
     ELSE IF Len(extractedRates) = 0
     THEN Return(g, <<>>, <<Warning("NO_RATES", 0)>>)
     ELSE BuildResult(g, extractedRates, 2, <<>>)

(***************************************************************************)
(* Itaú                                                                    *)
(***************************************************************************)
\* part_003:400-447  parseRates
ItauParseRates(fullText) ==
  LET rated(p) == p.k = "ADQUISICION_DE_VIVIENDA_DESDE_HASTA"
      h == FirstAfter(fullText, 0, rated)
      s == FirstIndex(fullText, {"LEASING_HABITACIONAL"})
      l == IF s = 0 THEN 0 ELSE FirstAfter(fullText, s, rated)
      one(productType, i) ==
        IF i = 0 THEN <<>>
        ELSE <<Extracted(productType, "COP", "UNKNOWN", "UNSPECIFIED",
                         ParseColombianNumber(fullText[i].v[1]), TRUE,
                         ParseColombianNumber(fullText[i].v[2]))>>
  IN one("HIPOTECARIO", h) \o one("LEASING", l)

\* part_003:489
ItauMarker(fullText) ==
  HasPhrase(fullText, {"ADQUISICION_DE_VIVIENDA", "ADQUISICION_DE_VIVIENDA_DESDE_HASTA"})

\* part_003:485-558  ItauParser.parse after the text was extracted
ItauParseText(f, pageTexts) ==
  LET fullText == JoinPages(pageTexts)
      g == [f EXCEPT !.stages = Append(@, "match")]
      extractedRates == ItauParseRates(fullText)
  IN IF ~ItauMarker(fullText)
     THEN Return(g, <<>>, <<Warning("SECTION_NOT_FOUND", 0)>>)
     ELSE IF Len(extractedRates) = 0
     THEN Return(g, <<>>, <<Warning("NO_RATES", 0)>>)
     ELSE BuildResult(g, extractedRates, 2, <<>>)

(***************************************************************************)
(* fetchPdfWithPlaywright (part_003:50-107)                                *)
(***************************************************************************)
IdlePw ==
  [pc |-> "idle", url |-> NoUrl, launched |-> 0, closed |-> 0, visited |-> <<>>,
   home |-> "pending", nav |-> "pending", dl |-> "pending", read |-> "none",
   exit |-> "none", closeCalls |-> 0, close |-> "pending",
   result |-> NoContent, error |-> NoError]

PlaywrightError(message) == [kind |-> "playwright", status |-> 0, message |-> message]

\* a try block without its finally block: the call settles at once
PwLeaveOpen(f, exit, result, error) ==
  [f EXCEPT !.pc = IF exit = "return" THEN "returned" ELSE "thrown",
            !.exit = exit, !.result = result, !.error = error]

\* the try block is left by a return or a throw: the finally block calls
\* browser.close() and awaits it
PwLeave(f, exit, result, error) ==
  [f EXCEPT !.pc = "closing", !.exit = exit, !.result = result, !.error = error,
            !.closeCalls = @ + 1]

\* part_003:50-51  up to await chromium.launch
PwBegin(url) ==
  /\ pw.pc = "idle"
  /\ pw' = [IdlePw EXCEPT !.pc = "launching", !.url = url]

\* part_003:51-57  chromium.launch resolved: the try block is entered and
\* browser.newContext is awaited
PwLaunched ==
  /\ pw.pc = "launching"
  /\ pw' = [pw EXCEPT !.pc = "context", !.launched = @ + 1]
  /\ UNCHANGED <<env, env0, app, calls, reqs, bg, run>>

\* part_003:53-58  browser.newContext settled: context.newPage is awaited, or
\* the rejection leaves the try block
PwContextSettled ==
  /\ pw.pc = "context"
  /\ \E made \in BOOLEAN :
       pw' = IF made THEN [pw EXCEPT !.pc = "page"]
             ELSE PwLeave(pw, "throw", NoContent,
                          PlaywrightError(<<"browser.newContext", "failed">>))
  /\ UNCHANGED <<env, env0, app, calls, reqs, bg, run>>

\* part_003:58-64  context.newPage settled: page.goto(MAIN_PAGE_URL) is
\* awaited, or the rejection leaves the try block
PwPageSettled ==
  /\ pw.pc = "page"
  /\ \E made \in BOOLEAN :
       pw' = IF made
             THEN [pw EXCEPT !.pc = "home",
                             !.visited = Append(@, Url(BANCO_DE_OCCIDENTE_MAIN_PAGE_URL, "", 0))]
             ELSE PwLeave(pw, "throw", NoContent,
                          PlaywrightError(<<"browserContext.newPage", "failed">>))
  /\ UNCHANGED <<env, env0, app, calls, reqs, bg, run>>

\* part_003:51  chromium.launch rejected: no browser, no finally block
PwLaunchFailed ==
  /\ pw.pc = "launching"
  /\ pw' = [pw EXCEPT !.pc = "thrown", !.error = PlaywrightError(<<"launch", "failed">>)]
  /\ UNCHANGED <<env, env0, app, calls, reqs, bg, run>>

\* a variant that goes on whatever the home page answered
PwHomeLoadedUnchecked ==
  /\ pw.pc = "home"
  /\ \E outcome \in {"ok", "bad", "null", "failed"} :
       pw' = CASE outcome = "failed" ->
                    PwLeave([pw EXCEPT !.home = outcome], "throw", NoContent,
                            PlaywrightError(<<"Timeout">>))
               [] OTHER -> [pw EXCEPT !.pc = "waiting", !.home = outcome]
  /\ UNCHANGED <<env, env0, app, calls, reqs, bg, run>>

\* part_003:61-71  the home page navigation settled: an OK response at network
\* idle, a non-OK response, no response, or a rejection (timeout)
PwHomeLoaded ==
  /\ pw.pc = "home"
  /\ \E outcome \in {"ok", "bad", "null", "failed"} :
       pw' = CASE outcome = "ok" -> [pw EXCEPT !.pc = "waiting", !.home = outcome]
               [] outcome = "failed" ->
                    PwLeave([pw EXCEPT !.home = outcome], "throw", NoContent,
                            PlaywrightError(<<"Timeout">>))
               [] OTHER ->
                    PwLeave([pw EXCEPT !.home = outcome], "throw", NoContent,
                            PlaywrightError(<<"Failed", "to", "load", "main", "page">>))
  /\ UNCHANGED <<env, env0, app, calls, reqs, bg, run>>

\* part_003:71-80  page.waitForTimeout(1000) settled: the download waiter is set
\* up and page.goto(url) is started, both awaited by Promise.all, or the
\* rejection of the wait leaves the try block
PwWaited ==
  /\ pw.pc = "waiting"
  /\ \E waited \in BOOLEAN :
       pw' = IF waited
             THEN [pw EXCEPT !.pc = "target", !.visited = Append(@, pw.url)]
             ELSE PwLeave(pw, "throw", NoContent,
                          PlaywrightError(<<"page.waitForTimeout", "failed">>))
  /\ UNCHANGED <<env, env0, app, calls, reqs, bg, run>>

\* part_003:78  page.goto(url) settled: an OK response, a non-OK response, or
\* null (no response, or a rejection caught)
PwNavSettled ==
  /\ pw.pc = "target"
  /\ pw.nav = "pending"
  /\ \E outcome \in {"ok", "bad", "none"} : pw' = [pw EXCEPT !.nav = outcome]
  /\ UNCHANGED <<env, env0, app, calls, reqs, bg, run>>

\* part_003:74  the download waiter settled: the event fired, or the timeout
\* was caught as null
PwDownloadSettled ==
  /\ pw.pc = "target"
  /\ pw.dl = "pending"
  /\ \E outcome \in {"fired", "none"} : pw' = [pw EXCEPT !.dl = outcome]
  /\ UNCHANGED <<env, env0, app, calls, reqs, bg, run>>

\* a variant that looks at the response before it looks at the download
PwBothSettledResponseFirst ==
  /\ pw.pc = "target"
  /\ pw.nav # "pending"
  /\ pw.dl # "pending"
  /\ pw' = CASE pw.nav = "none" ->
                  PwLeave(pw, "throw", NoContent,
                          PlaywrightError(<<"No", "response", "received">>))
             [] pw.nav = "bad" ->
                  PwLeave(pw, "throw", NoContent, HttpError(403))
             [] pw.dl = "fired" -> [pw EXCEPT !.pc = "path"]
             [] OTHER -> [pw EXCEPT !.pc = "body"]
  /\ UNCHANGED <<env, env0, app, calls, reqs, bg, run>>

\* part_003:77-99  Promise.all resolved
PwBothSettled ==
  /\ pw.pc = "target"
  /\ pw.nav # "pending"
  /\ pw.dl # "pending"
  /\ pw' = CASE pw.dl = "fired" -> [pw EXCEPT !.pc = "path"]
             [] pw.nav = "none" ->
                  PwLeave(pw, "throw", NoContent,
                          PlaywrightError(<<"No", "response", "received">>))
             [] pw.nav = "bad" ->
                  PwLeave(pw, "throw", NoContent, HttpError(403))
             [] OTHER -> [pw EXCEPT !.pc = "body"]
  /\ UNCHANGED <<env, env0, app, calls, reqs, bg, run>>

\* part_003:84-90  download.path() settled: it resolved with a path or with
\* null, or it rejected
PwPathDone ==
  /\ pw.pc = "path"
  /\ \E outcome \in {"path", "null", "rejected"} :
       pw' = CASE outcome = "path" -> [pw EXCEPT !.pc = "reading"]
               [] outcome = "null" ->
                    PwLeave(pw, "throw", NoContent,
                            PlaywrightError(<<"Download", "failed">>))
               [] OTHER ->
                    PwLeave(pw, "throw", NoContent,
                            PlaywrightError(<<"download.path", "failed">>))
  /\ UNCHANGED <<env, env0, app, calls, reqs, bg, run>>

\* part_003:88-90  readFile(path) settled: the downloaded file was read, or
\* the rejection leaves the try block
PwDownloadRead ==
  /\ pw.pc = "reading"
  /\ \/ \E d \in OccidenteDocs :
          pw' = PwLeave([pw EXCEPT !.read = "download"], "return",
                        [origin |-> pw.url, doc |-> d], NoError)
     \/ pw' = PwLeave(pw, "throw", NoContent, EnoentError)
  /\ UNCHANGED <<env, env0, app, calls, reqs, bg, run>>

\* part_003:102-103  response.body() settled: the body was read, or the
\* rejection leaves the try block
PwBodyRead ==
  /\ pw.pc = "body"
  /\ \/ \E d \in OccidenteDocs :
          pw' = PwLeave([pw EXCEPT !.read = "body"], "return",
                        [origin |-> pw.url, doc |-> d], NoError)
     \/ pw' = PwLeave(pw, "throw", NoContent,
                      PlaywrightError(<<"response.body", "failed">>))
  /\ UNCHANGED <<env, env0, app, calls, reqs, bg, run>>

\* the rejection of browser.close()
CloseError == PlaywrightError(<<"browser.close", "failed">>)

\* part_003:104-106  browser.close() settled: when it resolved the call returns
\* or throws as the try block did, when it rejected the call throws that
\* rejection, whatever the try block did
PwClosed ==
  /\ pw.pc = "closing"
  /\ \E closed \in BOOLEAN :
       pw' = IF closed
             THEN [pw EXCEPT !.pc = IF pw.exit = "return" THEN "returned" ELSE "thrown",
                             !.closed = @ + 1, !.close = "resolved"]
             ELSE [pw EXCEPT !.pc = "thrown", !.close = "rejected",
                             !.result = NoContent, !.error = CloseError]
  /\ UNCHANGED <<env, env0, app, calls, reqs, bg, run>>

(***************************************************************************)
(* parse(): the steps of a run, one per await                              *)
(***************************************************************************)
\* the banks whose parse() reads config.fixturesPath in fixture mode and
\* fetches otherwise
FixtureBanks == {"DAVIVIENDA", "BANCO_AGRARIO", "BANCOOMEVA", "BANCO_DE_BOGOTA",
                 "FNA", "BANCO_DE_OCCIDENTE"}

\* the banks whose parse() fetches its document with one fetchWithRetry call
DirectBanks == {"DAVIVIENDA", "BANCO_AGRARIO", "FNA"}

\* what a file of a bank may hold
FixtureDocs(bank) ==
  CASE bank = "BANCO_DE_BOGOTA" -> BogotaDocs
    [] bank = "DAVIVIENDA" -> DaviviendaDocs
    [] bank = "BANCO_AGRARIO" -> AgrarioDocs
    [] bank = "BANCOOMEVA" -> BancoomevaDocs
    [] bank = "FNA" -> FnaDocs
    [] bank = "BANCO_DE_OCCIDENTE" -> OccidenteDocs
    [] bank = "ITAU" -> ItauDocs

\* sourceUrl of each parser
SourceUrl(bank) ==
  CASE bank = "BANCO_DE_BOGOTA" -> BogotaDefaultSourceUrl
    [] bank = "DAVIVIENDA" -> Url(DAVIVIENDA_SOURCE_URL, "", 0)
    [] bank = "BANCO_AGRARIO" -> Url(BANCO_AGRARIO_SOURCE_PAGE_URL, "", 0)
    [] bank = "BANCOOMEVA" -> Url(BANCOOMEVA_RATES_PAGE_URL, "", 0)
    [] bank = "FNA" -> Url(FNA_SOURCE_URL, "", 0)
    [] bank = "BANCO_DE_OCCIDENTE" -> Url(BANCO_DE_OCCIDENTE_SOURCE_URL, "", 0)
    [] bank = "ITAU" -> Url(ITAU_SOURCE_URL, "", 0)

\* the URL a direct bank fetches
FetchUrl(bank) ==
  CASE bank = "BANCO_AGRARIO" -> Url(BANCO_AGRARIO_SOURCE_PDF_URL, "", 0)
    [] OTHER -> SourceUrl(bank)

\* the synchronous prefix of parse(): the frame with its empty lists and retrievedAt
Entered(bank, config, at) ==
  [IdleRun EXCEPT !.bank = bank, !.config = config, !.retrievedAt = at,
                  !.sourceUrl = SourceUrl(bank)]

\* this.config.useFixtures && this.config.fixturesPath
FromFixture(config) == config.useFixtures /\ config.fixturesPath # ""

NothingRuns == run.pc = "idle" /\ bg.pc = "idle" /\ pw.pc = "idle"

\* fixture mode: up to await readFile(this.config.fixturesPath)
ParseFixtureOf(bank) ==
  /\ NothingRuns
  /\ \E config \in ParserConfigs, at \in Instants :
       /\ FromFixture(config)
       /\ run' = [Entered(bank, config, at) EXCEPT !.pc = "reading"]
  /\ UNCHANGED <<env, env0, app, calls, reqs, bg, pw>>

ParseFixture == \E bank \in FixtureBanks : ParseFixtureOf(bank)

BogotaParseFixture == ParseFixtureOf("BANCO_DE_BOGOTA")

\* davivienda.ts:155-158, banco-agrario.ts:172-175, fna.ts:56  live mode: up to
\* the await of fetchWithRetry
ParseLive ==
  /\ NothingRuns
  /\ \E bank \in DirectBanks, config \in ParserConfigs, at \in Instants :
       /\ ~FromFixture(config)
       /\ run' = [Entered(bank, config, at) EXCEPT !.pc = "fetching"]
       /\ FetchStart(1, FetchUrl(bank), NoOptions)
  /\ UNCHANGED <<env0, app, bg, pw>>

\* davivienda.test.ts:329-343  Banco de Bogota, live mode: up to the await of
\* fetchBancoDeBogotaPdf({ useBrowserUserAgent: true })
BogotaParseLive ==
  /\ NothingRuns
  /\ \E config \in ParserConfigs, at \in Instants :
       /\ ~FromFixture(config)
       /\ run' = [Entered("BANCO_DE_BOGOTA", config, at) EXCEPT !.pc = "fetching"]
  /\ BgBegin("parser", NoOptions)
  /\ UNCHANGED <<env0, app, pw>>

\* bancoomeva.ts:130-133  the options of both Bancoomeva fetches
BancoomevaOptions == Options(FALSE, 0, TRUE)

\* bancoomeva.ts:151-162, 128-133  Bancoomeva, live mode: up to the await of the
\* rates page in findLatestPdfUrl
BancoomevaParseLive ==
  /\ NothingRuns
  /\ \E config \in ParserConfigs, at \in Instants :
       /\ ~FromFixture(config)
       /\ run' = [Entered("BANCOOMEVA", config, at) EXCEPT !.pc = "finding"]
  /\ FetchStart(1, Url(BANCOOMEVA_RATES_PAGE_URL, "", 0), BancoomevaOptions)
  /\ UNCHANGED <<env0, app, bg, pw>>

\* part_003:232-244  Banco de Occidente, live mode: up to the first await of
\* fetchPdfWithPlaywright(this.sourceUrl)
OccidenteParseLive ==
  /\ NothingRuns
  /\ \E config \in ParserConfigs, at \in Instants :
       /\ ~FromFixture(config)
       /\ run' = [Entered("BANCO_DE_OCCIDENTE", config, at) EXCEPT !.pc = "fetching"]
  /\ PwBegin(SourceUrl("BANCO_DE_OCCIDENTE"))
  /\ UNCHANGED <<env, env0, app, calls, reqs, bg>>

\* part_003:455-477  Itaú: the fixture path is config.fixturesPath or the default
\* one; without a file there the run returns at once, else readFile is awaited
ItauParse ==
  /\ NothingRuns
  /\ \E config \in ParserConfigs, at \in Instants, exists \in BOOLEAN :
       run' = IF exists
              THEN [Entered("ITAU", config, at) EXCEPT !.pc = "reading"]
              ELSE [Return(Entered("ITAU", config, at), <<>>,
                           <<Warning("FIXTURE_NOT_FOUND", 0)>>)
                      EXCEPT !.rawTextHash = EmptyHash]
  /\ UNCHANGED <<env, env0, app, calls, reqs, bg, pw>>

\* the run has read its bytes
HasStageBytes(f) == \E i \in 1..Len(f.stages) : f.stages[i] = "bytes"

\* the bytes are in hand: sha256 of them; FNA builds its result at once, the
\* others await extractPdfText
GotBytes(f, content) ==
  LET g == [f EXCEPT !.bytes = content, !.rawTextHash = Sha256(content),
                     !.stages = @ \o <<"bytes", "fingerprint">>]
  IN IF f.bank = "FNA" THEN FnaParseHtml(g, content.doc.pages)
     ELSE [g EXCEPT !.pc = "extracting"]

\* readFile resolved
ReadFileDone ==
  /\ run.pc = "reading"
  /\ \E d \in FixtureDocs(run.bank) :
       run' = GotBytes(run, [origin |-> NoUrl, doc |-> d])
  /\ UNCHANGED <<env, env0, app, calls, reqs, bg, pw>>

\* the caller of a fixture run that read its bytes calls parse() of the same
\* extractor again, at any instant: up to await readFile(this.config.fixturesPath);
\* Itaú tests existsSync(fixturePath) again and returns at once when the file is gone
ParseAgain ==
  /\ app.pc = "idle"
  /\ run.pc \in {"returned", "thrown"}
  /\ HasStageBytes(run)
  /\ run.bank = "ITAU" \/ FromFixture(run.config)
  /\ app' = [app EXCEPT !.pc = "first", !.first = run]
  /\ \E at \in Instants, exists \in BOOLEAN :
       /\ run.bank # "ITAU" => exists
       /\ run' = IF exists
                 THEN [Entered(run.bank, run.config, at) EXCEPT !.pc = "reading"]
                 ELSE [Return(Entered(run.bank, run.config, at), <<>>,
                              <<Warning("FIXTURE_NOT_FOUND", 0)>>)
                         EXCEPT !.rawTextHash = EmptyHash]
  /\ UNCHANGED <<env, env0, calls, reqs, bg, pw>>

\* readFile of the second run resolved: the file holds the bytes it held
ReadFileSame ==
  /\ app.pc = "first"
  /\ run.pc = "reading"
  /\ run' = GotBytes(run, app.first.bytes)
  /\ UNCHANGED <<env, env0, app, calls, reqs, bg, pw>>

\* readFile of a first run resolved
ReadFileFirst == app.pc = "idle" /\ ReadFileDone

\* readFile rejected: the path does not exist (for Itaú: no longer exists, or
\* is no file)
ReadFileFailed ==
  /\ run.pc = "reading"
  /\ run' = Throw(run, EnoentError)
  /\ UNCHANGED <<env, env0, app, calls, reqs, bg, pw>>

\* the fetchWithRetry call whose result holds the document
DocumentCall(bank) == IF bank = "BANCOOMEVA" THEN 2 ELSE 1

\* fetchWithRetry returned the document
Fetched ==
  /\ run.pc = "fetching"
  /\ run.bank \in DirectBanks \cup {"BANCOOMEVA"}
  /\ calls[DocumentCall(run.bank)].pc = "returned"
  /\ run' = GotBytes(run, calls[DocumentCall(run.bank)].result.content)
  /\ UNCHANGED <<env, env0, app, calls, reqs, bg, pw>>

\* fetchWithRetry threw
FetchThrown ==
  /\ run.pc = "fetching"
  /\ run.bank \in DirectBanks \cup {"BANCOOMEVA"}
  /\ calls[DocumentCall(run.bank)].pc = "thrown"
  /\ run' = Throw(run, calls[DocumentCall(run.bank)].error)
  /\ UNCHANGED <<env, env0, app, calls, reqs, bg, pw>>

\* bancoomeva.ts:134-142,164-169  the rates page came: with a download link the
\* PDF is fetched, without one findLatestPdfUrl throws
BancoomevaPageFetched ==
  /\ run.pc = "finding"
  /\ calls[1].pc = "returned"
  /\ LET html == JoinPages(calls[1].result.content.doc.pages)
         i == FirstIndex(html, {"DESCARGAR_ID_FILE"})
     IN IF i = 0
        THEN /\ run' = Throw(run, [kind |-> "nolink", status |-> 0,
                                   message |-> <<"Could", "not", "find", "PDF",
                                                 "download", "link">>])
             /\ UNCHANGED <<env, calls, reqs>>
        ELSE /\ run' = [run EXCEPT !.pc = "fetching"]
             /\ FetchStart(2, Url(BANCOOMEVA_DOWNLOAD_URL, "", html[i].v[1][1]),
                           BancoomevaOptions)
  /\ UNCHANGED <<env0, app, bg, pw>>

\* bancoomeva.ts:130  the fetch of the rates page threw
BancoomevaPageThrown ==
  /\ run.pc = "finding"
  /\ calls[1].pc = "thrown"
  /\ run' = Throw(run, calls[1].error)
  /\ UNCHANGED <<env, env0, app, calls, reqs, bg, pw>>

\* davivienda.test.ts:341-348  fetchBancoDeBogotaPdf returned
BogotaFetched ==
  /\ run.pc = "fetching"
  /\ run.bank = "BANCO_DE_BOGOTA"
  /\ bg.pc = "returned"
  /\ run' = GotBytes([run EXCEPT !.sourceUrl = bg.resolvedUrl], bg.result.content)
  /\ UNCHANGED <<env, env0, app, calls, reqs, bg, pw>>

\* davivienda.test.ts:341  fetchBancoDeBogotaPdf threw
BogotaFetchThrown ==
  /\ run.pc = "fetching"
  /\ run.bank = "BANCO_DE_BOGOTA"
  /\ bg.pc = "thrown"
  /\ run' = Throw(run, bg.error)
  /\ UNCHANGED <<env, env0, app, calls, reqs, bg, pw>>

\* part_003:244-246  fetchPdfWithPlaywright returned
OccidenteFetched ==
  /\ run.pc = "fetching"
  /\ run.bank = "BANCO_DE_OCCIDENTE"
  /\ pw.pc = "returned"
  /\ run' = GotBytes(run, pw.result)
  /\ UNCHANGED <<env, env0, app, calls, reqs, bg, pw>>

\* part_003:244  fetchPdfWithPlaywright threw
OccidenteFetchThrown ==
  /\ run.pc = "fetching"
  /\ run.bank = "BANCO_DE_OCCIDENTE"
  /\ pw.pc = "thrown"
  /\ run' = Throw(run, pw.error)
  /\ UNCHANGED <<env, env0, app, calls, reqs, bg, pw>>

\* parse() from the resolution of extractPdfText to its return
ParseText(f, pageTexts) ==
  CASE f.bank = "BANCO_DE_BOGOTA" -> BogotaParseText(f, pageTexts)
    [] f.bank = "DAVIVIENDA" -> DaviviendaParseText(f, pageTexts)
    [] f.bank = "BANCO_AGRARIO" -> AgrarioParseText(f, pageTexts)
    [] f.bank = "BANCOOMEVA" -> BancoomevaParseText(f, pageTexts)
    [] f.bank = "BANCO_DE_OCCIDENTE" -> OccidenteParseText(f, pageTexts)
    [] f.bank = "ITAU" -> ItauParseText(f, pageTexts)

\* parse() at the rejection of extractPdfText: davivienda.ts:167-172 catches it,
\* the other extractors do not
ExtractionRejected(f, error) ==
  IF f.bank = "DAVIVIENDA"
  THEN Return(f, <<>>, <<Warning("FAILED_TO_EXTRACT", 0)>>)
  ELSE Throw(f, error)

\* extractPdfText resolved with the page texts
ExtractDone ==
  /\ run.pc = "extracting"
  /\ run.bytes.doc.readable
  /\ run' = ParseText([run EXCEPT !.stages = Append(@, "extract")], run.bytes.doc.pages)
  /\ UNCHANGED <<env, env0, app, calls, reqs, bg, pw>>

\* extractPdfText rejected: the bytes are no PDF
ExtractFailed ==
  /\ run.pc = "extracting"
  /\ ~run.bytes.doc.readable
  /\ run' = ExtractionRejected([run EXCEPT !.stages = Append(@, "extract")],
                               InvalidPdfError)
  /\ UNCHANGED <<env, env0, app, calls, reqs, bg, pw>>

InitFetch ==
  /\ env \in EnvValues
  /\ env0 = env
  /\ calls = [c \in Calls |-> IdleCall]
  /\ reqs = <<>>
  /\ bg = IdleBg
  /\ run = IdleRun
  /\ pw = IdlePw
  /\ app = IdleApp

\* overlapping calls
NextFetch ==
  \E c \in Calls :
    \/ CallerStart(c)
    \/ AttemptOk(c)
    \/ AttemptFail(c)
    \/ Retry(c)
    \/ Finally(c)

SpecFetch == InitFetch /\ [][NextFetch]_vars

\* one call at a time: the caller awaits a call before making the next one
CallerNext(c) ==
  /\ Settled(c)
  /\ calls' = [calls EXCEPT ![c] = IdleCall]
  /\ reqs' = <<>>
  /\ UNCHANGED <<env, env0, app, bg, run, pw>>

NextSingle ==
  \/ CallerStart(1)
  \/ AttemptOk(1)
  \/ AttemptFail(1)
  \/ Retry(1)
  \/ Finally(1)
  \/ CallerNext(1)

SpecSingle == InitFetch /\ [][NextSingle]_vars

(***************************************************************************)
(* Banco de Bogota: fetchBancoDeBogotaPdf, called directly or by the parser*)
(***************************************************************************)
InitBogota == InitFetch

NextBogota ==
  \/ BgCallerStart
  \/ BogotaParseFixture
  \/ BogotaParseLive
  \/ \E c \in Calls : AttemptOk(c)
  \/ \E c \in Calls : AttemptFail(c)
  \/ \E c \in Calls : Retry(c)
  \/ \E c \in Calls : Finally(c)
  \/ BgCurrentReturned
  \/ BgFallback
  \/ BgCurrentThrown
  \/ BgPreviousReturned
  \/ BgPreviousThrown
  \/ BogotaFetched
  \/ BogotaFetchThrown
  \/ ReadFileDone
  \/ ReadFileFailed
  \/ ExtractDone
  \/ ExtractFailed

SpecBogota == InitBogota /\ [][NextBogota]_vars

(***************************************************************************)
(* The extractors: one run of one parser                                   *)
(***************************************************************************)
InitParse == InitFetch

NextParse ==
  \/ ParseFixture
  \/ ParseLive
  \/ BogotaParseLive
  \/ BancoomevaParseLive
  \/ OccidenteParseLive
  \/ ItauParse
  \/ \E c \in Calls : AttemptOk(c)
  \/ \E c \in Calls : AttemptFail(c)
  \/ \E c \in Calls : Retry(c)
  \/ \E c \in Calls : Finally(c)
  \/ BgCurrentReturned
  \/ BgFallback
  \/ BgCurrentThrown
  \/ BgPreviousReturned
  \/ BgPreviousThrown
  \/ PwLaunched
  \/ PwLaunchFailed
  \/ PwContextSettled
  \/ PwPageSettled
  \/ PwHomeLoaded
  \/ PwWaited
  \/ PwNavSettled
  \/ PwDownloadSettled
  \/ PwBothSettled
  \/ PwPathDone
  \/ PwDownloadRead
  \/ PwBodyRead
  \/ PwClosed
  \/ ReadFileDone
  \/ ReadFileFailed
  \/ Fetched
  \/ FetchThrown
  \/ BancoomevaPageFetched
  \/ BancoomevaPageThrown
  \/ BogotaFetched
  \/ BogotaFetchThrown
  \/ OccidenteFetched
  \/ OccidenteFetchThrown
  \/ ExtractDone
  \/ ExtractFailed

SpecParse == InitParse /\ [][NextParse]_vars

\* a caller of deduplicateOffers: a list of offers, its result, the result of
\* the result, and the result of the list in another order
InitDedupe ==
  /\ env = "unset"
  /\ env0 = env
  /\ calls = [c \in Calls |-> IdleCall]
  /\ reqs = <<>>
  /\ bg = IdleBg
  /\ run = IdleRun
  /\ pw = IdlePw
  /\ \E offers \in DedupeInputs : app = [IdleApp EXCEPT !.pc = "input", !.input = offers]

\* an extractor run twice in fixture mode on a file that is not written between
\* the runs
InitTwoRuns == InitParse /\ env = "unset"

NextTwoRuns ==
  \/ ParseFixture
  \/ ItauParse
  \/ ReadFileFirst
  \/ ReadFileFailed
  \/ ExtractDone
  \/ ExtractFailed
  \/ ParseAgain
  \/ ReadFileSame

SpecTwoRuns == InitTwoRuns /\ [][NextTwoRuns]_vars

\* a caller of rank: a list of offers and the entries of one scenario
InitRank == InitDedupe

NextRank == RankCall

SpecRank == InitRank /\ [][NextRank]_vars

NextDedupe == DedupeCall \/ DedupeAgain \/ DedupePermuted

SpecDedupe == InitDedupe /\ [][NextDedupe]_vars

(***************************************************************************)
(* Claims about fetchWithRetry                                             *)
(***************************************************************************)
InFlight(c) == calls[c].pc \in {"fetching", "backoff", "resolved", "rejected"}

NoCallInFlight == \A c \in Calls : ~InFlight(c)

Requests(c) == Cardinality({i \in 1..Len(reqs) : reqs[i].call = c})

\* C1: for a single call with skipSslVerification = true the flag is "0" during
\* every attempt, and once the call has returned or thrown the flag equals the
\* value it had before the call ("unset" included).
C1_TlsOverrideScoped ==
  \A c \in Calls :
    calls[c].skip =>
      /\ calls[c].pc = "fetching" => env = "0"
      /\ Settled(c) => env = calls[c].before

\* C1 witness: a skipping call that threw after several attempts, made while the
\* flag was unset
C1_Witness ==
  /\ calls[1].pc = "thrown"
  /\ calls[1].skip
  /\ calls[1].before = "unset"
  /\ calls[1].attempts > 1

\* C2: once every overlapping call has returned or thrown, the flag equals the
\* value it had before the first call started.
C2_FlagRestoredAfterOverlap ==
  (NoCallInFlight /\ \E c \in Calls : Settled(c)) => env = env0

\* C3: at most retries + 1 attempts; a failed attempt is followed by a wait for
\* the next attempt while fewer than retries + 1 were made; the call returns at
\* its first successful attempt, which is its last; it throws only after
\* retries + 1 failed attempts.
C3_RetryBudget ==
  \A c \in Calls :
    LET f == calls[c] IN
    /\ f.attempts <= f.retries + 1
    /\ Requests(c) = f.attempts
    /\ f.pc = "fetching" => f.failed = f.attempts - 1
    /\ f.pc = "backoff" =>
         /\ f.failed = f.attempts
         /\ f.attempts < f.retries + 1
         /\ ENABLED Retry(c)
    /\ f.pc \in {"rejected", "thrown"} =>
         /\ f.failed = f.retries + 1
         /\ f.attempts = f.retries + 1
         /\ f.error \in AttemptErrors
    /\ f.pc \in {"resolved", "returned"} =>
         /\ f.failed = f.attempts - 1
         /\ f.result.statusCode = 200
         /\ f.result.content.origin = f.url

\* C3 witness: a call that returned at its second attempt with a retry to spare,
\* and (in another run) one that threw after all its attempts
C3_Witness ==
  /\ calls[1].pc = "returned"
  /\ calls[1].attempts = 2
  /\ calls[1].retries = DefaultRetries

(***************************************************************************)
(* Claims about fetchBancoDeBogotaPdf                                      *)
(***************************************************************************)
\* the calendar month before `date`, by the calendar
PreviousCalendarMonth(date) ==
  IF date.month = 0 THEN [year |-> date.year - 1, month |-> 11]
  ELSE [year |-> date.year, month |-> date.month - 1]

CurrentMonthUrl == MonthUrl(bg.now)

PreviousMonthUrl == MonthUrl(PreviousCalendarMonth(bg.now))

RequestedUrls == {reqs[i].url : i \in 1..Len(reqs)}

\* the current month's request ended in HTTP 404
CurrentNotFound ==
  /\ bg.pc # "idle"
  /\ calls[1].pc = "thrown"
  /\ calls[1].error.kind = "http"
  /\ calls[1].error.status = 404

\* the current month's request ended in another failure
CurrentOtherFailure ==
  /\ bg.pc # "idle"
  /\ calls[1].pc = "thrown"
  /\ ~(calls[1].error.kind = "http" /\ calls[1].error.status = 404)

\* C4: when the current month answers 404 and the previous month succeeds, the
\* previous month's content is returned with resolvedUrl the previous month's
\* URL; when the current month succeeds, resolvedUrl is the current month's URL;
\* resolvedUrl is the URL whose response produced the content, and the Banco de
\* Bogota parser records it as the source url of its offers.
C4_ResolvedUrlIsContentUrl ==
  /\ bg.pc = "returned" =>
       /\ bg.resolvedUrl = bg.result.content.origin
       /\ bg.resolvedUrl = reqs[Len(reqs)].url
       /\ calls[1].pc = "returned" =>
            /\ bg.resolvedUrl = CurrentMonthUrl
            /\ bg.result = calls[1].result
       /\ CurrentNotFound =>
            /\ bg.resolvedUrl = PreviousMonthUrl
            /\ bg.result = calls[2].result
  /\ (bg.caller = "parser" /\ run.returned) =>
       /\ run.sourceUrl = bg.resolvedUrl
       /\ \A i \in 1..Len(run.offers) : run.offers[i].source.url = bg.resolvedUrl

\* C4 witness: in January the parser returned offers read from the previous
\* December's document after the current month answered 404
C4_Witness ==
  /\ bg.caller = "parser"
  /\ bg.now.month = 0
  /\ CurrentNotFound
  /\ run.returned
  /\ Len(run.offers) > 0
  /\ run.offers[1].source.url = PreviousMonthUrl

\* C5: when the current month's request fails with anything other than HTTP
\* 404, the previous month's URL is never requested and the same error reaches
\* the caller.
C5_OtherFailuresPropagate ==
  CurrentOtherFailure =>
    /\ calls[2].pc = "idle"
    /\ PreviousMonthUrl \notin RequestedUrls
    /\ bg.pc \in {"current", "thrown"}
    /\ bg.pc = "thrown" => bg.error = calls[1].error
    /\ (bg.caller = "parser" /\ run.pc = "thrown") => run.error = calls[1].error

\* C5 witness: the current month answered 500 and the parser's run threw it
C5_Witness ==
  /\ CurrentOtherFailure
  /\ calls[1].error = HttpError(500)
  /\ bg.caller = "parser"
  /\ run.pc = "thrown"

\* C6 as stated: after a 404 the previous calendar month's URL is requested a
\* single time, no earlier month is requested, and a failure of the fallback
\* reaches the caller.
C6_FallbackRequestedOnce ==
  (CurrentNotFound /\ bg.pc \in {"returned", "thrown"}) =>
    /\ calls[2].url = PreviousMonthUrl
    /\ Cardinality({i \in 1..Len(reqs) : reqs[i].url = PreviousMonthUrl}) = 1
    /\ RequestedUrls \subseteq {CurrentMonthUrl, PreviousMonthUrl}
    /\ calls[2].pc = "thrown" => (bg.pc = "thrown" /\ bg.error = calls[2].error)

\* C6 amended: after a 404 there is one fallback call, against the previous
\* calendar month's URL, made with the caller's retry policy: that URL is
\* requested at least once and at most retries + 1 times (retries + 1 times when
\* the fallback fails), no earlier month is requested, and a failure of the
\* fallback reaches the caller.
C6_OneFallbackCall ==
  (CurrentNotFound /\ bg.pc \in {"returned", "thrown"}) =>
    /\ calls[2].url = PreviousMonthUrl
    /\ Requests(2) = Cardinality({i \in 1..Len(reqs) : reqs[i].url = PreviousMonthUrl})
    /\ Requests(2) >= 1
    /\ Requests(2) <= EffectiveRetries(bg.opts) + 1
    /\ RequestedUrls \subseteq {CurrentMonthUrl, PreviousMonthUrl}
    /\ \A c \in Calls \ {1, 2} : calls[c].pc = "idle"
    /\ calls[2].pc = "thrown" =>
         /\ Requests(2) = EffectiveRetries(bg.opts) + 1
         /\ bg.pc = "thrown"
         /\ bg.error = calls[2].error

\* C6 witness: in January the fallback to December failed on each of its four
\* requests and its last error reached the caller
C6_Witness ==
  /\ CurrentNotFound
  /\ bg.now.month = 0
  /\ bg.pc = "thrown"
  /\ Requests(2) = DefaultRetries + 1
  /\ bg.error = calls[2].error

\* C7: a transport error other than 404 met by a live fetch propagates only
\* after the configured retries were made, the current month's request included.
C7_TransportErrorsRetried ==
  \A c \in Calls :
    (bg.pc = "thrown" /\ calls[c].pc = "thrown" /\ bg.error = calls[c].error
       /\ ~(calls[c].error.kind = "http" /\ calls[c].error.status = 404)) =>
      calls[c].failed = EffectiveRetries(bg.opts) + 1

(***************************************************************************)
(* Claims about the extractors                                             *)
(***************************************************************************)
HasStage(f, stage) == \E i \in 1..Len(f.stages) : f.stages[i] = stage

HasWarning(f, kind) == \E i \in 1..Len(f.warnings) : f.warnings[i].kind = kind

\* whether the text holds one of the section markers the bank's parse() tests
\* (Bancoomeva and FNA test none)
SectionMarker(bank, fullText) ==
  CASE bank = "DAVIVIENDA" -> DaviviendaMarker(fullText)
    [] bank = "BANCO_AGRARIO" -> AgrarioMarker(fullText)
    [] bank = "BANCO_DE_BOGOTA" -> BogotaMarker(fullText)
    [] bank = "BANCO_DE_OCCIDENTE" -> OccidenteMarker(fullText)
    [] bank = "ITAU" -> ItauMarker(fullText)
    [] OTHER -> TRUE

\* the text extraction of the run's document was attempted and failed
ExtractionFailed == HasStage(run, "extract") /\ ~run.bytes.doc.readable

\* C8: when the text holds none of the bank's section markers, parse() returns
\* no offer and at least one warning and does not throw; no result holds an
\* offer together with a "section not found" warning.
C8_MissingSectionShortCircuits ==
  /\ (HasStage(run, "match")
        /\ ~SectionMarker(run.bank, JoinPages(run.bytes.doc.pages))) =>
       /\ run.pc = "returned"
       /\ run.offers = <<>>
       /\ run.warnings # <<>>
  /\ (run.returned /\ HasWarning(run, "SECTION_NOT_FOUND")) => run.offers = <<>>

\* C9: every returned result carries a non-empty fingerprint, the digest of the
\* raw bytes of the document.
C9_FingerprintOnEveryReturn ==
  run.returned =>
    /\ run.rawTextHash # EmptyHash
    /\ run.rawTextHash = Sha256(run.bytes)

\* C10: when the text extraction of the bytes fails, parse() still returns a
\* result, with no offer, a warning and the fingerprint of the bytes; it does
\* not throw.
C10_ExtractionFailureIsAResult ==
  ExtractionFailed =>
    /\ run.pc = "returned"
    /\ run.offers = <<>>
    /\ run.warnings # <<>>
    /\ run.rawTextHash = Sha256(run.bytes)

(***************************************************************************)
(* The minimum number of offers                                            *)
(***************************************************************************)
\* the least number of offers each extractor expects (davivienda.ts:246,
\* banco-agrario.ts:254, bancoomeva.ts:255, davivienda.test.ts:427, fna.ts:141,
\* part_003:310, part_003:547)
MinimumOffers(bank) ==
  CASE bank = "DAVIVIENDA" -> 8
    [] bank \in {"BANCO_AGRARIO", "BANCOOMEVA", "BANCO_DE_BOGOTA", "FNA"} -> 4
    [] bank \in {"BANCO_DE_OCCIDENTE", "ITAU"} -> 2
    [] OTHER -> 0

\* the rates the extractor of the run finds in the bytes the run read
ExtractedRatesOf(f) ==
  LET pageTexts == f.bytes.doc.pages
      fullText == JoinPages(pageTexts)
  IN CASE f.bank = "BANCO_DE_BOGOTA" -> BogotaParseViviendaSection(fullText)
       [] f.bank = "DAVIVIENDA" -> DaviviendaParseViviendaSection(pageTexts)
       [] f.bank = "BANCO_AGRARIO" -> AgrarioParseHousingRates(fullText)
       [] f.bank = "BANCOOMEVA" ->
            BancoomevaParseViviendaSection(PageOrEmpty(pageTexts, 0), FALSE)
            \o BancoomevaParseViviendaSection(PageOrEmpty(pageTexts, 3), TRUE)
       [] f.bank = "FNA" -> FnaExtracted(FnaParseAllTables(pageTexts))
       [] f.bank = "BANCO_DE_OCCIDENTE" -> OccidenteParseViviendaSection(fullText)
       [] f.bank = "ITAU" -> ItauParseRates(fullText)
       [] OTHER -> <<>>

\* the offers the count is taken of: one per extracted rate, for FNA after the
\* duplicates were removed
ExtractedOffersOf(f) ==
  LET rates == ExtractedRatesOf(f)
  IN IF f.bank = "FNA"
     THEN DeduplicateOffers([i \in 1..Len(rates) |-> FnaOffer(f, rates[i])])
     ELSE [i \in 1..Len(rates) |-> BuildOffer(f, rates[i])]

OnlyExtractedWarnings(f) == SelectSeq(f.warnings, LAMBDA w : w.kind = "ONLY_EXTRACTED")

\* C11: a run that built at least one offer but fewer than its bank's minimum
\* returns every extracted offer unchanged with exactly one "Only extracted N"
\* warning, N the number of returned offers; a run that built at least the
\* minimum returns no such warning.
C11_BelowMinimumWarnsOnce ==
  (run.returned /\ HasStage(run, "build")) =>
    LET n == Len(ExtractedOffersOf(run))
    IN /\ (1 <= n /\ n < MinimumOffers(run.bank)) =>
            /\ run.offers = ExtractedOffersOf(run)
            /\ OnlyExtractedWarnings(run) = <<Warning("ONLY_EXTRACTED", Len(run.offers))>>
       /\ n >= MinimumOffers(run.bank) => OnlyExtractedWarnings(run) = <<>>

\* Davivienda returned the offers of three groups, two short of its eight
C11_Witness ==
  /\ run.returned /\ run.bank = "DAVIVIENDA" /\ Len(run.offers) = 6
  /\ OnlyExtractedWarnings(run) = <<Warning("ONLY_EXTRACTED", 6)>>

(***************************************************************************)
(* Davivienda: the groups of four percentages                              *)
(***************************************************************************)
\* the groups of four percentages of the housing page of the bytes a run read
HousingGroups(f) ==
  LET pageTexts == f.bytes.doc.pages
      i == DaviviendaPageIndex(pageTexts)
  IN IF i = -1 THEN <<>>
     ELSE SelectSeq(pageTexts[i + 1], LAMBDA p : p.k = "PCT4")

\* "12,60% 0,99% 6,95% 0,56%" and then "12,50% 0,99% 7,95% 0,64%"
ScenarioGroups ==
  <<Phrase("PCT4", <<Numeral(12, 60), Numeral(0, 99), Numeral(6, 95), Numeral(0, 56)>>),
    Phrase("PCT4", <<Numeral(12, 50), Numeral(0, 99), Numeral(7, 95), Numeral(0, 64)>>)>>

\* Davivienda returned from a document whose housing page holds the two groups
ScenarioReturned ==
  /\ run.returned /\ run.bank = "DAVIVIENDA" /\ HasStage(run, "match")
  /\ HousingGroups(run) = ScenarioGroups

\* what an offer says of its rate
RateRow(offer) ==
  <<offer.product_type, offer.segment, offer.currency_index, offer.rate.kind,
    offer.rate.from>>

\* C12 as stated: the two groups yield two offers.
C12_TwoOffers ==
  ScenarioReturned => Len(run.offers) = 2

\* C12 (amended): the two groups yield four offers, a fixed peso offer and an
\* indexed spread offer per group: VIS at 12.60 and 6.95, then NO_VIS at 12.50
\* and 7.95; no offer carries one of the monthly values 0,99 / 0,56 / 0,64.
C12_FourOffers ==
  ScenarioReturned =>
    /\ [i \in 1..Len(run.offers) |-> RateRow(run.offers[i])] =
         <<<<"HIPOTECARIO", "VIS", "COP", "COP_FIXED", 1260>>,
           <<"HIPOTECARIO", "VIS", "UVR", "UVR_SPREAD", 695>>,
           <<"HIPOTECARIO", "NO_VIS", "COP", "COP_FIXED", 1250>>,
           <<"HIPOTECARIO", "NO_VIS", "UVR", "UVR_SPREAD", 795>>>>
    /\ \A i \in 1..Len(run.offers) :
         /\ run.offers[i].rate.from \notin {99, 56, 64}
         /\ ~run.offers[i].rate.hasTo

C12_Witness ==
  ScenarioReturned /\ Len(run.offers) = 4

\* the first value of the group lies in [10, 14] and the third in [5, 10]
InPlausibleRanges(group) ==
  /\ ParseColombianNumber(group.v[1]) >= 1000 /\ ParseColombianNumber(group.v[1]) <= 1400
  /\ ParseColombianNumber(group.v[3]) >= 500 /\ ParseColombianNumber(group.v[3]) <= 1000

\* an offer of the run carries the first value of the group as its peso rate or
\* the third as its spread
Contributes(f, group) ==
  \E i \in 1..Len(f.offers) :
    \/ /\ f.offers[i].currency_index = "COP"
       /\ f.offers[i].rate.from = ParseColombianNumber(group.v[1])
    \/ /\ f.offers[i].currency_index = "UVR"
       /\ f.offers[i].rate.from = ParseColombianNumber(group.v[3])

\* C13: a group of four percentages of the housing page contributes offers if
\* and only if its first value lies in [10, 14] and its third in [5, 10], bounds
\* included; no value of a group outside the ranges becomes the rate of an offer.
C13_PlausibleGroupsContribute ==
  (run.returned /\ run.bank = "DAVIVIENDA" /\ HasStage(run, "match")) =>
    \A j \in 1..Len(HousingGroups(run)) :
      Contributes(run, HousingGroups(run)[j]) <=> InPlausibleRanges(HousingGroups(run)[j])

(***************************************************************************)
(* deduplicateOffers                                                       *)
(***************************************************************************)
Deduped == app.pc \in {"deduped", "again", "permuted"}

KeysOf(offers) == {OfferKey(offers[i]) : i \in 1..Len(offers)}

\* the keys of a list in the order of their first occurrence
RECURSIVE FirstKeys(_)
FirstKeys(offers) ==
  IF offers = <<>> THEN <<>>
  ELSE LET rest == FirstKeys(SubSeq(offers, 1, Len(offers) - 1))
           key == OfferKey(offers[Len(offers)])
       IN IF \E i \in 1..Len(rest) : rest[i] = key THEN rest ELSE Append(rest, key)

\* `sub` is `list` with some of its elements left out, the others in their order
IsSubList(sub, list) ==
  \E at \in [1..Len(sub) -> 1..Len(list)] :
    /\ \A i \in 1..Len(sub) : list[at[i]] = sub[i]
    /\ \A i, j \in 1..Len(sub) : i < j => at[i] < at[j]

\* one offer per key of the input, none with a higher comparison value than an
\* offer of the input with its key
OnePerKeyLowest ==
  /\ \A key \in KeysOf(app.input) :
       Cardinality({i \in 1..Len(app.output) : OfferKey(app.output[i]) = key}) = 1
  /\ \A i \in 1..Len(app.output), j \in 1..Len(app.input) :
       OfferKey(app.input[j]) = OfferKey(app.output[i]) =>
         GetRateValue(app.output[i].rate) <= GetRateValue(app.input[j].rate)

\* C14 as stated: the result is a sub-list of the input with exactly one offer
\* per key of the input, whose comparison value is the lowest of its key.
C14_SubListOnePerKey ==
  Deduped => (IsSubList(app.output, app.input) /\ OnePerKeyLowest)

\* C14 (amended): every offer of the result is an offer of the input, there is
\* exactly one per key of the input (the channel is no part of the key), the
\* keys stand in the order of their first occurrence in the input, and the
\* comparison value of each is the lowest of its key.
C14_OnePerKeyLowest ==
  Deduped =>
    /\ \A i \in 1..Len(app.output) : \E j \in 1..Len(app.input) : app.output[i] = app.input[j]
    /\ [i \in 1..Len(app.output) |-> OfferKey(app.output[i])] = FirstKeys(app.input)
    /\ OnePerKeyLowest

\* three offers of two keys, the third lower than the first and of its key, on
\* another channel
C14_Witness ==
  /\ Deduped /\ Len(app.input) = 3 /\ Len(app.output) = 2
  /\ app.output[1] = app.input[3]
  /\ app.input[1].channel # app.input[3].channel

\* C15: deduplicateOffers applied to its own result returns that result, the
\* same offers in the same order.
C15_Idempotent ==
  app.pc = "again" => app.again = app.output

\* the first application removed an offer
C15_Witness ==
  /\ app.pc = "again" /\ Len(app.input) = 3 /\ Len(app.output) = 2
  /\ app.again = app.output

\* C16: for every list and every permutation of it the same offers survive,
\* compared on all their fields.
C16_OrderIndependent ==
  app.pc = "permuted" =>
    {app.permutedOutput[i] : i \in 1..Len(app.permutedOutput)}
      = {app.output[i] : i \in 1..Len(app.output)}

(***************************************************************************)
(* Offer ids                                                               *)
(***************************************************************************)
\* the fields an offer's id is made of
IdFields(offer) ==
  <<offer.bank_id, offer.product_type, offer.currency_index, offer.segment,
    offer.channel, offer.rate.from>>

\* C17: in the result of a run of any extractor no two offers have the same id,
\* and no two agree on bank_id, product_type, currency_index, segment, channel
\* and rate_from.
C17_OfferIdsDistinct ==
  run.returned =>
    \A i, j \in 1..Len(run.offers) :
      i # j => /\ run.offers[i].id # run.offers[j].id
               /\ IdFields(run.offers[i]) # IdFields(run.offers[j])

\* Bancoomeva returned the same rate of the same product, currency and segment
\* for clients and for associates
C17_Witness ==
  /\ run.returned /\ run.bank = "BANCOOMEVA"
  /\ \E i, j \in 1..Len(run.offers) :
       /\ i # j
       /\ OfferKey(run.offers[i]) = OfferKey(run.offers[j])
       /\ run.offers[i].rate = run.offers[j].rate
       /\ run.offers[i].channel # run.offers[j].channel

(***************************************************************************)
(* Two runs on the same bytes                                              *)
(***************************************************************************)
\* an offer without the instant it was retrieved at
WithoutRetrievedAt(offer) ==
  [offer EXCEPT !.source = [url |-> offer.source.url,
                            retrieved_at |-> "",
                            extracted_text_fingerprint |->
                              offer.source.extracted_text_fingerprint]]

\* what a settled run left, but for retrieved_at
Outcome(f) ==
  [returned |-> f.returned, error |-> f.error, bank_id |-> f.bank,
   warnings |-> f.warnings, raw_text_hash |-> f.rawTextHash,
   offers |-> [i \in 1..Len(f.offers) |-> WithoutRetrievedAt(f.offers[i])]]

\* the second run is over, and it read the bytes the first run read
BothRunsOver ==
  /\ app.pc = "first" /\ run.pc \in {"returned", "thrown"}
  /\ run.bank = app.first.bank
  /\ HasStageBytes(run) /\ run.bytes = app.first.bytes

\* C18: two runs of an extractor on the same fixture bytes agree on bank_id,
\* warnings, fingerprint and on every field of every offer, ids included, in
\* the same order, but for source.retrieved_at.
C18_Deterministic ==
  BothRunsOver => Outcome(run) = Outcome(app.first)

\* both runs returned offers, at different instants
C18_Witness ==
  /\ BothRunsOver /\ run.returned /\ Len(run.offers) >= 2
  /\ run.retrievedAt # app.first.retrievedAt
  /\ run.offers[1].source.retrieved_at # app.first.offers[1].source.retrieved_at
  /\ run.offers[1].id = app.first.offers[1].id

(***************************************************************************)
(* fetchPdfWithPlaywright: the two navigations                             *)
(***************************************************************************)
HomePageUrl == Url(BANCO_DE_OCCIDENTE_MAIN_PAGE_URL, "", 0)

\* page.goto(url) was called
TargetRequested == \E i \in 1..Len(pw.visited) : pw.visited[i] = pw.url

\* C19: the target URL is requested only after the navigation to the home page
\* completed with an OK response; when that navigation failed or its response
\* was not OK, the call throws and the target URL is never requested.
C19_HomeBeforeTarget ==
  /\ TargetRequested => (pw.home = "ok" /\ pw.visited = <<HomePageUrl, pw.url>>)
  /\ pw.home \in {"bad", "null", "failed"} =>
       /\ ~TargetRequested
       /\ pw.pc \in {"closing", "thrown"}
       /\ pw.exit = "throw"

\* the call returned the document after both navigations
C19_Witness ==
  pw.pc = "returned" /\ pw.home = "ok" /\ pw.visited = <<HomePageUrl, pw.url>>

(***************************************************************************)
(* fetchPdfWithPlaywright: the outcome of the second navigation            *)
(***************************************************************************)
\* both signals of the second navigation settled and the try block was left
SecondNavigationOver ==
  /\ pw.pc \in {"closing", "returned", "thrown"}
  /\ pw.nav # "pending" /\ pw.dl # "pending"

ReturnedBytesOf(read) ==
  /\ pw.exit = "return" /\ pw.read = read /\ pw.result # NoContent
  /\ pw.pc \in {"closing", "returned"}

ThrewError == pw.exit = "throw" /\ pw.read = "none" /\ pw.error # NoError

\* the errors of a download that gave no bytes: no path, a rejected
\* download.path(), a rejected readFile
DownloadErrors ==
  {PlaywrightError(<<"Download", "failed">>),
   PlaywrightError(<<"download.path", "failed">>), EnoentError}

\* the errors of a second navigation without a download and without an OK
\* response, and the rejection of response.body()
BodyError == PlaywrightError(<<"response.body", "failed">>)

TransportErrors == {PlaywrightError(<<"No", "response", "received">>), HttpError(403)}

\* browser.close() rejected: the call throws that rejection
CloseRejected ==
  pw.close = "rejected" /\ pw.pc = "thrown" /\ pw.error = CloseError
  /\ pw.result = NoContent

\* C20 as stated: the bytes of the downloaded file when a download fired,
\* whatever the response; else the body of an OK response; else an error.
C20_DownloadElseBodyElseError ==
  SecondNavigationOver =>
    CASE pw.dl = "fired" -> ReturnedBytesOf("download")
      [] pw.nav = "ok" -> ReturnedBytesOf("body")
      [] OTHER -> ThrewError

\* C20 (amended): when a download fired, whatever the response, the bytes of
\* the downloaded file, or an error of the download when it has no path or
\* its path or its file cannot be read; else, for an OK response, its body, or
\* the rejection of response.body(); else a transport error; and when
\* browser.close() rejects, that rejection in every case.
C20_DownloadWithPathElseBodyElseError ==
  SecondNavigationOver =>
    \/ CloseRejected
    \/ /\ pw.close # "rejected"
       /\ CASE pw.dl = "fired" ->
                 \/ ReturnedBytesOf("download")
                 \/ ThrewError /\ pw.error \in DownloadErrors
            [] pw.nav = "ok" ->
                 \/ ReturnedBytesOf("body")
                 \/ ThrewError /\ pw.error = BodyError
            [] OTHER -> ThrewError /\ pw.error \in TransportErrors

\* a download fired while the response was not OK: the file was read
C20_Witness ==
  /\ SecondNavigationOver /\ pw.dl = "fired" /\ pw.nav = "bad"
  /\ ReturnedBytesOf("download")

(***************************************************************************)
(* fetchPdfWithPlaywright: the two signals of the second navigation        *)
(***************************************************************************)
\* one of the two signals has occurred: an OK response or the download event
SignalOccurred == pw.pc = "target" /\ (pw.nav = "ok" \/ pw.dl = "fired")

\* C21: as soon as the OK response or the download event has occurred, the
\* call can go on to read the bytes, whether or not the other signal has
\* occurred or timed out.
C21_ProceedsOnFirstSignal ==
  SignalOccurred => ENABLED PwBothSettled

(***************************************************************************)
(* The rate of an offer                                                    *)
(***************************************************************************)
\* C22: in every offer of a result whose rate has a lower and an upper bound,
\* the upper bound is not below the lower one.
C22_UpperNotBelowLower ==
  run.returned =>
    \A i \in 1..Len(run.offers) :
      run.offers[i].rate.hasTo => run.offers[i].rate.to >= run.offers[i].rate.from

(***************************************************************************)
(* rank                                                                    *)
(***************************************************************************)
\* the places of the input whose offers match the scenario
MatchingPlaces == {j \in 1..Len(app.input) : Matches(app.scenario, app.input[j])}

\* C23: the entries of a scenario are exactly the offers matching its
\* predicate, with their comparison values in non-decreasing order and the
\* positions 1..N; offers with equal comparison values keep their input order.
C23_RankedEntries ==
  app.pc = "ranked" =>
    /\ Len(app.entries) = Cardinality(MatchingPlaces)
    /\ \A i \in 1..Len(app.entries) : app.entries[i].position = i
    /\ \E at \in [1..Len(app.entries) -> 1..Len(app.input)] :
         /\ \A i \in 1..Len(app.entries) :
              /\ at[i] \in MatchingPlaces
              /\ app.entries[i].offer_id = app.input[at[i]].id
              /\ app.entries[i].value = app.input[at[i]].rate.from
         /\ \A i, j \in 1..Len(app.entries) :
              i < j => \/ app.entries[i].value < app.entries[j].value
                       \/ /\ app.entries[i].value = app.entries[j].value
                          /\ at[i] < at[j]

\* three matching offers, the last one the lowest, the first two equal
C23_Witness ==
  /\ app.pc = "ranked" /\ Len(app.entries) = 3
  /\ app.input[1].rate.from = app.input[2].rate.from
  /\ app.input[1].id # app.input[2].id
  /\ app.entries[1].offer_id = app.input[3].id
  /\ app.entries[2].offer_id = app.input[1].id

(***************************************************************************)
(* the stages of a run                                                     *)
(***************************************************************************)
\* the place of a stage in the pipeline
StageNo(stage) ==
  CASE stage = "bytes" -> 1
    [] stage = "fingerprint" -> 2
    [] stage = "extract" -> 3
    [] stage = "match" -> 4
    [] stage = "build" -> 5

\* the stages a run went through stand in the order of the pipeline, none twice
StagesInOrder ==
  \A i, j \in 1..Len(run.stages) :
    i < j => StageNo(run.stages[i]) < StageNo(run.stages[j])

\* a run left parse() by an exception only while it was obtaining its bytes
ThrownOnlyByFetch == run.pc = "thrown" => ~HasStage(run, "bytes")

\* C24: in every run of parse() the stages occur in the order obtain bytes,
\* fingerprint, text extraction, matching, offer building, each at most once,
\* and a run ends by returning a result or by propagating the failure of the
\* fetch, never by another exception.
C24_StagesInOrderThenEnds == StagesInOrder /\ ThrownOnlyByFetch

(***************************************************************************)
(* fixtures                                                                *)
(***************************************************************************)
\* C25: a run of a parser configured with useFixtures = true makes no network
\* request and starts no browser session, whatever fixturesPath is.
C25_UseFixturesNeverLive ==
  (run.pc # "idle" /\ run.config.useFixtures) =>
    /\ reqs = <<>>
    /\ pw.pc = "idle" /\ pw.launched = 0

(***************************************************************************)
(* the shape of a rate                                                     *)
(***************************************************************************)
\* C26: in every offer of a returned result, FNA's deduplicated result
\* included, rate.kind is UVR_SPREAD exactly when currency_index is UVR and
\* COP_FIXED exactly when currency_index is COP.
C26_RateKindMatchesCurrency ==
  run.returned =>
    \A i \in 1..Len(run.offers) :
      /\ run.offers[i].rate.kind = "UVR_SPREAD" <=> run.offers[i].currency_index = "UVR"
      /\ run.offers[i].rate.kind = "COP_FIXED" <=> run.offers[i].currency_index = "COP"

\* FNA returned offers of both currency indexes after its deduplication dropped one
C26_Witness ==
  /\ run.returned /\ run.bank = "FNA"
  /\ \E i, j \in 1..Len(run.offers) :
       /\ run.offers[i].currency_index = "UVR"
       /\ run.offers[j].currency_index = "COP"
  /\ Len(run.offers) < Len(FnaExtracted(FnaParseAllTables(run.bytes.doc.pages)))

(***************************************************************************)
(* ties of the deduplication                                               *)
(***************************************************************************)
\* the places of the input that hold an offer of this key at the lowest
\* comparison value of the key
LowestPlaces(key) ==
  {j \in 1..Len(app.input) :
     /\ OfferKey(app.input[j]) = key
     /\ \A k \in 1..Len(app.input) :
          OfferKey(app.input[k]) = key =>
            GetRateValue(app.input[j].rate) <= GetRateValue(app.input[k].rate)}

\* the first of a non-empty set of places
FirstPlace(places) == CHOOSE j \in places : \A k \in places : j <= k

\* C27: the survivor of a group is the first offer of the input among those of
\* the group with the lowest comparison value: a later offer with an equal
\* value does not replace it.
C27_FirstOfLowestSurvives ==
  Deduped =>
    \A i \in 1..Len(app.output) :
      app.output[i] = app.input[FirstPlace(LowestPlaces(OfferKey(app.output[i])))]

\* two different offers of one group tie at the lowest value, after a higher one
C27_Witness ==
  /\ Deduped /\ Len(app.input) = 3 /\ Len(app.output) = 1
  /\ LowestPlaces(OfferKey(app.output[1])) = {2, 3}
  /\ app.input[2] # app.input[3]
  /\ app.output[1] = app.input[2]

(***************************************************************************)
(* Davivienda: product type and segment by position                        *)
(***************************************************************************)
\* a group the pattern matched and the plausibility filter let pass
PassesFilter(group) == DaviviendaRateMatch(group) /\ InPlausibleRanges(group)

PassingGroups(f) == SelectSeq(HousingGroups(f), PassesFilter)

\* product type and segment of the 1st, 2nd, 3rd and 4th passing group
PositionKinds ==
  <<<<"HIPOTECARIO", "VIS">>, <<"HIPOTECARIO", "NO_VIS">>,
    <<"LEASING", "VIS">>, <<"LEASING", "NO_VIS">>>>

\* C28: the k-th group passing the plausibility filter, k <= 4, yields the peso
\* and the spread offer of the k-th (product type, segment); groups that do not
\* pass do not count, passing groups after the fourth yield nothing; a result
\* holds at most 8 offers, each (product_type, currency_index, segment) once.
C28_KindsByPosition ==
  (run.returned /\ run.bank = "DAVIVIENDA" /\ HasStage(run, "match")) =>
    LET passing == PassingGroups(run)
        n == IF Len(passing) < 4 THEN Len(passing) ELSE 4
    IN /\ Len(run.offers) = 2 * n
       /\ Len(run.offers) <= 8
       /\ \A k \in 1..n :
            /\ RateRow(run.offers[2 * k - 1]) =
                 <<PositionKinds[k][1], PositionKinds[k][2], "COP", "COP_FIXED",
                   ParseColombianNumber(passing[k].v[1])>>
            /\ RateRow(run.offers[2 * k]) =
                 <<PositionKinds[k][1], PositionKinds[k][2], "UVR", "UVR_SPREAD",
                   ParseColombianNumber(passing[k].v[3])>>
       /\ \A i, j \in 1..Len(run.offers) :
            OfferKey(run.offers[i]) = OfferKey(run.offers[j]) => i = j

\* a page with a group that does not pass, then five that do: eight offers
C28_Witness ==
  /\ run.returned /\ run.bank = "DAVIVIENDA" /\ HasStage(run, "match")
  /\ Len(HousingGroups(run)) = 6 /\ Len(PassingGroups(run)) = 5
  /\ ~PassesFilter(HousingGroups(run)[1])
  /\ Len(run.offers) = 8

(***************************************************************************)
(* the offers of a result and the result                                   *)
(***************************************************************************)
\* C29: in a returned result with offers, every offer carries the result's
\* raw_text_hash as its source fingerprint and the result's bank_id, and all
\* offers carry the same retrieved_at.
C29_OffersAgreeWithResult ==
  (run.returned /\ run.offers # <<>>) =>
    \A i \in 1..Len(run.offers) :
      /\ run.offers[i].source.extracted_text_fingerprint = Result(run).raw_text_hash
      /\ run.offers[i].source.retrieved_at = run.offers[1].source.retrieved_at
      /\ run.offers[i].bank_id = Result(run).bank_id

\* a result with several offers, built from bytes that were fetched live
C29_Witness ==
  /\ run.returned /\ Len(run.offers) >= 2
  /\ ~FromFixture(run.config)
  /\ ~Result(run).raw_text_hash.empty
  /\ \A i \in 1..Len(run.offers) :
       run.offers[i].source.extracted_text_fingerprint = Sha256(run.bytes)

(***************************************************************************)
(* the browser of fetchPdfWithPlaywright                                   *)
(***************************************************************************)
PwSettled == pw.pc \in {"returned", "thrown"}

====
